---- MODULE Spec2Model ----
(***************************************************************************)
(* pfta: deep Equal / Diff over object graphs (compare.ts, diff.ts,        *)
(* equal.ts, visit.ts) and the patch model the Changes are applied with.   *)
(*                                                                         *)
(* A JavaScript value is a record tagged with t.  Containers carry an id,  *)
(* which stands for the identity of the instance (Object.is on two         *)
(* containers compares ids).  Indices are 0-based as in the source; the    *)
(* element with index i of an array a is a.elems[i + 1].                   *)
(***************************************************************************)
EXTENDS Integers, Sequences, FiniteSets, TLC

VARIABLES lhs, rhs, opts, pc, eq, df, target, nextChange, before, token, check,
          callback, trav, mirror, heaps, reuse

vars == <<lhs, rhs, opts, pc, eq, df, target, nextChange, before, token, check,
          callback, trav, mirror, heaps, reuse>>

(***************************************************************************)
(* Values                                                                  *)
(***************************************************************************)
Undef == [t |-> "undefined"]
Null == [t |-> "null"]
NaN == [t |-> "number", nan |-> TRUE]
Num(n) == [t |-> "number", v |-> n]
Str(s) == [t |-> "string", s |-> s]
Arr(id, es) == [t |-> "array", id |-> id, elems |-> es]
Obj(id, ks, vs) == [t |-> "object", id |-> id, keys |-> ks, vals |-> vs]
\* a keyed mapping (Map): its entries [key, value] in insertion order
MapOf(id, es) == [t |-> "map", id |-> id, entries |-> es]
\* a timestamp (Date): a mutable leaf, an instance of its own
DateOf(id, ms) == [t |-> "date", id |-> id, time |-> ms]

\* a unique-value collection (Set): its members in insertion order
SetOf(id, es) == [t |-> "set", id |-> id, elems |-> es]

IsContainer(v) == v.t \in {"array", "object", "map", "set"}
IsNaN(v) == v.t = "number" /\ "nan" \in DOMAIN v

\* not yet assigned
None == [none |-> TRUE]

\* value[prop] of a record: undefined when the key is absent
GetProp(v, k) == IF k \in DOMAIN v.vals THEN v.vals[k] ELSE Undef

SeqToSet(s) == {s[i] : i \in 1..Len(s)}
Reverse(s) == [i \in 1..Len(s) |-> s[Len(s) + 1 - i]]

(***************************************************************************)
(* compare.ts: result constants                                            *)
(***************************************************************************)
IS_SAME == "null"
IS_EQUAL_B == "false"
NOT_EQUAL == "true"
IS_LT == "-1"
IS_EQUAL_N == "0"
IS_GT == "1"
UNDEFINED == "undefined"

\* null, false and zero are all an indication of equality
IS_EQUAL(v) == v \in {"null", "false", "0"}

NumberEPSILON == 1

(***************************************************************************)
(* Options (VisitorOptions, CompareOptions) and contexts                   *)
(***************************************************************************)
\* propFilter is modelled by the set of keys the predicate rejects.
DefaultOpts ==
  [looseEquality |-> FALSE, epsilon |-> <<>>, laxArrayOrdering |-> FALSE,
   strictMapOrdering |-> FALSE, strictSetOrdering |-> FALSE,
   guardCircularRefs |-> FALSE, propFilter |-> {}, propFilterThrows |-> {}]

\* a context that keeps the refs of the call made before on the instance
VisitorCreateContextKept(o) ==
  [opts |-> o, refs |-> IF reuse = None \/ reuse.first = None THEN <<>> ELSE reuse.first.ctx.refs]
\* Visitor.createContext
VisitorCreateContext(o) ==
  [opts |-> o, refs |-> <<>>]

\* Compare.createContext: result is left unset, searching is false.
\* log is the record of the handler calls made on this context.
CompareCreateContext(o, alg) ==
  [alg |-> alg, opts |-> o, refs |-> VisitorCreateContext(o).refs,
   result |-> UNDEFINED, searching |-> FALSE, searchResult |-> UNDEFINED,
   changes |-> <<>>, threw |-> FALSE, log |-> <<>>]

\* Diff.createContext
DiffCreateContext(o) == [CompareCreateContext(o, "diff") EXCEPT !.changes = <<>>]

\* Equal.createContext
EqualCreateContext(o) == CompareCreateContext(o, "equal")

(***************************************************************************)
(* Graph nodes                                                             *)
(***************************************************************************)
Nil == [nil |-> TRUE]
NoPos == <<>>
Pos(i) == <<i>>

RootNode(v) == [value |-> v, property |-> <<>>, position |-> NoPos, parentNode |-> Nil]

\* Visitor.createObjectPropertyNode / createArrayElementNode
CreateObjectPropertyNode(value, property, obj, position) ==
  [value |-> value, property |-> property, position |-> position, parentNode |-> obj]
CreateArrayElementNode(value, index, array, position) ==
  [value |-> value, property |-> index, position |-> position, parentNode |-> array]
\* Visitor.createMapElementNode
CreateMapElementNode(value, key, map, position) ==
  [value |-> value, property |-> key, position |-> position, parentNode |-> map]

\* Visitor.createSetElementNode: the node has no property
CreateSetElementNode(value, set, position) ==
  [value |-> value, property |-> <<>>, position |-> position, parentNode |-> set]

\* Visitor.updateNodeTypeOf
UpdateNodeTypeOf(v) ==
  CASE v.t = "null" -> "null"
    [] v.t = "array" -> "array"
    [] v.t = "object" -> "object"
    [] OTHER -> v.t

\* the === operator in the place of Object.is: NaN is not NaN
ObjectIsStrictEq(l, r) ==
  IF IsContainer(l) /\ IsContainer(r) THEN l.id = r.id
  ELSE IF IsContainer(l) \/ IsContainer(r) THEN FALSE
  ELSE IF IsNaN(l) \/ IsNaN(r) THEN FALSE
  ELSE l = r
\* Object.is (SameValue): NaN is NaN, containers are the same instance
ObjectIs(l, r) ==
  IF IsContainer(l) /\ IsContainer(r) THEN l.id = r.id
  ELSE IF IsContainer(l) \/ IsContainer(r) THEN FALSE
  ELSE l = r

\* Visitor.updateObjectNodeProperties without the propFilter step
UpdateObjectNodePropertiesUnfiltered(v, o) == v.keys
\* Visitor.updateObjectNodeProperties: objPropsFn (own enumerable names), then propFilter
UpdateObjectNodeProperties(v, o) ==
  SelectSeq(v.keys, LAMBDA p : p \notin o.propFilter)

\* the propFilter callback of the caller throws on one of the property names
PropFilterThrows(v, o) == \E i \in 1..Len(v.keys) : v.keys[i] \in o.propFilterThrows

\* Visitor.hasReference on a context without refs: no value is known
HasReferenceUnguarded(ctx, node) == FALSE
\* Visitor.hasReference / indexOfReference / addReference
HasReference(ctx, node) ==
  /\ ctx.opts.guardCircularRefs
  /\ IsContainer(node.value)
  /\ \E i \in 1..Len(ctx.refs) : ctx.refs[i] = node.value.id
AddReference(ctx, node) ==
  IF ctx.opts.guardCircularRefs /\ IsContainer(node.value)
  THEN [ctx EXCEPT !.refs = Append(@, node.value.id)]
  ELSE ctx

(***************************************************************************)
(* The == operator on values of different kinds (looseEquality)            *)
(***************************************************************************)
RECURSIVE ToStringValue(_), Join(_)
\* String(v) as == computes it for an operand that is an object
ToStringValue(v) ==
  CASE v.t = "string" -> v.s
    [] v.t = "number" -> IF IsNaN(v) THEN "NaN" ELSE ToString(v.v)
    [] v.t = "null" -> "null"
    [] v.t = "undefined" -> "undefined"
    [] v.t = "array" -> Join(v.elems)
    [] OTHER -> "[object Object]"
\* Array.prototype.join: null and undefined elements give the empty string
Join(es) ==
  IF es = <<>> THEN ""
  ELSE LET h == IF Head(es).t \in {"null", "undefined"} THEN "" ELSE ToStringValue(Head(es))
       IN IF Len(es) = 1 THEN h ELSE h \o "," \o Join(Tail(es))

\* Number(s) for a string
ToNumber(s) ==
  IF s = "" THEN Num(0)
  ELSE IF \E n \in 0..9 : ToString(n) = s
       THEN Num(CHOOSE n \in 0..9 : ToString(n) = s)
       ELSE NaN

NumEq(a, b) == ~IsNaN(a) /\ ~IsNaN(b) /\ a.v = b.v

\* lhs.value == rhs.value, for operands whose typeOf differ
LooseEq(l, r) ==
  LET nullish(x) == x.t \in {"null", "undefined"}
      prim(x) == IF IsContainer(x) THEN Str(ToStringValue(x)) ELSE x
      pl == prim(l)
      pr == prim(r)
  IN IF nullish(l) \/ nullish(r) THEN nullish(l) /\ nullish(r)
     ELSE IF IsContainer(l) /\ IsContainer(r) THEN l.id = r.id
     ELSE IF pl.t = "string" /\ pr.t = "string" THEN pl.s = pr.s
     ELSE IF pl.t = "number" /\ pr.t = "number" THEN NumEq(pl, pr)
     ELSE IF pl.t = "number" THEN NumEq(pl, ToNumber(pr.s))
     ELSE NumEq(ToNumber(pl.s), pr)

(***************************************************************************)
(* diff.ts: paths and Changes                                              *)
(***************************************************************************)
RECURSIVE JsonText(_)
\* JSON.stringify(value), as the structure the text spells out: identities
\* are gone, undefined and NaN in a sequence read null, keys whose value is
\* undefined are left out, a mapping or a collection reads {}
JsonText(v) ==
  CASE v.t = "array" ->
         [t |-> "array",
          elems |-> [i \in 1..Len(v.elems) |->
                       IF v.elems[i].t = "undefined" THEN Null ELSE JsonText(v.elems[i])]]
    [] v.t = "object" ->
         LET ks == SelectSeq(v.keys, LAMBDA k : v.vals[k].t # "undefined")
         IN [t |-> "object", keys |-> ks, vals |-> [k \in SeqToSet(ks) |-> JsonText(v.vals[k])]]
    [] v.t \in {"map", "set"} -> [t |-> "object", keys |-> <<>>, vals |-> <<>>]
    [] v.t = "date" -> [t |-> "date", time |-> v.time]
    [] IsNaN(v) -> Null
    [] OTHER -> v

\* the segment of a member of a unique-value collection: its position when
\* strictSetOrdering gave it one (only then is a position set on such a
\* node), else the hash code of its JSON text, which stands for the text
SetSegment(node) ==
  IF node.position # NoPos THEN node.position[1] ELSE [hash |-> JsonText(node.value)]

RECURSIVE MakePath(_)
\* Diff.makePath: walk from the node up to the root
MakePath(node) ==
  IF node.parentNode = Nil THEN <<>>
  ELSE Append(MakePath(node.parentNode),
              [typeOf |-> UpdateNodeTypeOf(node.parentNode.value),
               segment |-> IF UpdateNodeTypeOf(node.parentNode.value) = "set"
                           THEN SetSegment(node) ELSE node.property])

\* Diff.createRemove
CreateRemove(l) == [kind |-> "remove", path |-> MakePath(l)]

\* Diff.createAdd without the insert marker
CreateAddPlain(r) == [kind |-> "add", path |-> MakePath(r), value |-> r.value]
\* Diff.createAdd: an Add into an array gets the negative (insert) terminal segment.
\* The root has an empty path: path[path.length-1] is undefined and reading
\* its typeOf throws a TypeError.
CreateAdd(r) ==
  LET path == MakePath(r)
      n == Len(path)
  IN IF n = 0 THEN [kind |-> "TypeError"]
     ELSE IF path[n].typeOf = "array"
          THEN [kind |-> "add",
                path |-> [path EXCEPT ![n] = [typeOf |-> "array", segment |-> (0 - path[n].segment) - 1]],
                value |-> r.value]
          ELSE [kind |-> "add", path |-> path, value |-> r.value]

\* Diff.createEdit carrying the lhs value
CreateEditLhsValue(l, r) == [kind |-> "edit", path |-> MakePath(r), value |-> l.value]
\* Diff.createEdit
CreateEdit(l, r) == [kind |-> "edit", path |-> MakePath(r), value |-> r.value]

(***************************************************************************)
(* Outcome handlers.  Each returns [ctx, ret]; ret is what the source      *)
(* returns: "true" / "false" (a boolean), "node" (a GraphNode, which the   *)
(* callers treat as stop) or "throw".                                      *)
(***************************************************************************)
\* the record of the calls made, kept for the properties: the handler, the
\* mode, and the two nodes it was called with
Logged(ctx, ev, l, r) ==
  [ctx EXCEPT !.log = Append(@, [ev |-> ev, searching |-> ctx.searching, l |-> l, r |-> r])]
\* where a logged node sits in its graph
PathOf(node) == IF node = Nil THEN <<>> ELSE MakePath(node)

\* Compare.areEqual (not overridden by Equal or Diff)
AreEqual(ctx, l, r, cmp) ==
  LET c == Logged(ctx, "areEqual", l, r)
  IN [ctx |-> IF c.searching
              THEN (IF c.searchResult = UNDEFINED THEN [c EXCEPT !.searchResult = cmp] ELSE c)
              ELSE (IF c.result = UNDEFINED THEN [c EXCEPT !.result = cmp] ELSE c),
      ret |-> "false"]

\* Compare.notEqual with the return value of Diff.notEqual
CompareNotEqualContinue(ctx, l, r, cmp) ==
  LET c == Logged(ctx, "notEqual", l, r)
  IN [ctx |-> IF c.searching THEN [c EXCEPT !.searchResult = cmp] ELSE [c EXCEPT !.result = cmp],
      ret |-> "true"]
\* Compare.notEqual
CompareNotEqual(ctx, l, r, cmp) ==
  LET c == Logged(ctx, "notEqual", l, r)
  IN [ctx |-> IF c.searching THEN [c EXCEPT !.searchResult = cmp] ELSE [c EXCEPT !.result = cmp],
      ret |-> "node"]

\* Compare.noLhs
CompareNoLhs(ctx, r) ==
  LET c == Logged(ctx, "noLhs", Nil, r)
  IN [ctx |-> IF c.searching THEN [c EXCEPT !.searchResult = NOT_EQUAL]
              ELSE [c EXCEPT !.result = NOT_EQUAL],
      ret |-> "node"]

\* Compare.noRhs
CompareNoRhs(ctx, l) ==
  LET c == Logged(ctx, "noRhs", l, Nil)
  IN [ctx |-> IF c.searching THEN [c EXCEPT !.searchResult = NOT_EQUAL]
              ELSE [c EXCEPT !.result = NOT_EQUAL],
      ret |-> "node"]

\* Diff.notEqual that stops the visit like Compare.notEqual
DiffNotEqualStop(ctx, l, r, cmp) ==
  LET c == Logged(ctx, "notEqual", l, r)
  IN [ctx |-> IF c.searching THEN [c EXCEPT !.searchResult = cmp]
              ELSE [c EXCEPT !.changes = Append(@, CreateEdit(l, r)), !.result = cmp],
      ret |-> "node"]
\* Diff.notEqual: record the Edit and keep visiting
DiffNotEqual(ctx, l, r, cmp) ==
  LET c == Logged(ctx, "notEqual", l, r)
  IN [ctx |-> IF c.searching THEN [c EXCEPT !.searchResult = cmp]
              ELSE [c EXCEPT !.changes = Append(@, CreateEdit(l, r)), !.result = cmp],
      ret |-> "true"]

\* Diff.noLhs: record the Add and keep visiting
DiffNoLhs(ctx, r) ==
  LET c == Logged(ctx, "noLhs", Nil, r)
      add == CreateAdd(r)
  IN IF c.searching THEN [ctx |-> [c EXCEPT !.searchResult = NOT_EQUAL], ret |-> "true"]
     ELSE IF add.kind = "TypeError" THEN [ctx |-> [c EXCEPT !.threw = TRUE], ret |-> "throw"]
     ELSE [ctx |-> [c EXCEPT !.changes = Append(@, add), !.result = NOT_EQUAL], ret |-> "true"]

\* Diff.noRhs: record the Remove and keep visiting
DiffNoRhs(ctx, l) ==
  LET c == Logged(ctx, "noRhs", l, Nil)
  IN IF c.searching THEN [ctx |-> [c EXCEPT !.searchResult = NOT_EQUAL], ret |-> "true"]
     ELSE [ctx |-> [c EXCEPT !.changes = Append(@, CreateRemove(l)), !.result = NOT_EQUAL],
           ret |-> "true"]

\* virtual dispatch on the algorithm the context belongs to
NotEqual(ctx, l, r, cmp) ==
  IF ctx.alg = "diff" THEN DiffNotEqual(ctx, l, r, cmp) ELSE CompareNotEqual(ctx, l, r, cmp)
NoLhs(ctx, r) == IF ctx.alg = "diff" THEN DiffNoLhs(ctx, r) ELSE CompareNoLhs(ctx, r)
NoRhs(ctx, l) == IF ctx.alg = "diff" THEN DiffNoRhs(ctx, l) ELSE CompareNoRhs(ctx, l)

\* if (r && typeof r !== 'boolean') return r;   (an exception unwinds the same loops)
Stops(ret) == ret \in {"node", "throw"}

(***************************************************************************)
(* compare.ts: the paired descent                                          *)
(***************************************************************************)
\* String.prototype.localeCompare on the strings of the model: 0 iff equal
StrOrder == <<"", "1", "2", "a", "b">>
StrIndex(s) == CHOOSE i \in 1..Len(StrOrder) : StrOrder[i] = s
LocaleCompare(a, b) ==
  IF a = b THEN IS_EQUAL_N ELSE IF StrIndex(a) < StrIndex(b) THEN IS_LT ELSE IS_GT

NumLt(a, b) == ~IsNaN(a) /\ ~IsNaN(b) /\ a.v < b.v
AbsDiffLt(a, b, e) ==
  /\ ~IsNaN(a) /\ ~IsNaN(b)
  /\ (IF a.v < b.v THEN b.v - a.v ELSE a.v - b.v) < e

\* Compare.visitOther, case 'number', with the three statements chained by
\* else: the NaN result, then the epsilon result, then the ordering
NumberCompareChained(l, r, o) ==
  LET e == IF o.epsilon = <<>> THEN NumberEPSILON ELSE o.epsilon[1]
  IN IF IsNaN(l) \/ IsNaN(r) THEN IS_EQUAL_B
     ELSE IF AbsDiffLt(l, r, e) THEN IS_EQUAL_N
     ELSE IF NumLt(l, r) THEN IS_LT ELSE IS_GT
\* Compare.visitOther, case 'number': the three statements in sequence; the
\* last if/else assigns result on both of its branches
NumberCompare(l, r, o) ==
  LET e == IF o.epsilon = <<>> THEN NumberEPSILON ELSE o.epsilon[1]
      r1 == IF IsNaN(l) \/ IsNaN(r) THEN IS_EQUAL_B ELSE UNDEFINED
      r2 == IF AbsDiffLt(l, r, e) THEN IS_EQUAL_N ELSE r1
      r3 == IF NumLt(l, r) THEN IS_LT ELSE IS_GT
  IN IF r2 = r3 THEN r2 ELSE r3

\* Compare.visitOther: the comparison result of two leaves of the same typeOf
LeafCompare(l, r, o) ==
  CASE l.t = "string" -> LocaleCompare(l.s, r.s)
    [] l.t = "number" -> NumberCompare(l, r, o)
    [] OTHER -> IF ObjectIs(l, r) THEN IS_SAME
                ELSE IF o.looseEquality /\ LooseEq(l, r) THEN IS_EQUAL_B
                ELSE IF l = r THEN IS_EQUAL_B
                ELSE NOT_EQUAL

\* Compare.visitOther
VisitOther(l, r, ctx) ==
  LET result == LeafCompare(l.value, r.value, ctx.opts)
  IN IF IS_EQUAL(result) THEN AreEqual(ctx, l, r, result) ELSE NotEqual(ctx, l, r, result)

\* Compare.createObjectPropertyNode: the rhs node and the lhs node glopped onto it
ComparePropertyTask(l, r, prop) ==
  [op |-> "compare",
   l |-> CreateObjectPropertyNode(GetProp(l.value, prop), prop, l, NoPos),
   r |-> CreateObjectPropertyNode(GetProp(r.value, prop), prop, r, NoPos)]

\* Compare.visitObject: noRhs for the removed keys, noLhs for the added keys,
\* then the visit of the shared keys
ObjectTasks(l, r, o) ==
  LET lp == UpdateObjectNodeProperties(l.value, o)
      rp == UpdateObjectNodeProperties(r.value, o)
      sharedProps == SelectSeq(lp, LAMBDA x : x \in SeqToSet(rp))
      removedProps == SelectSeq(lp, LAMBDA x : x \notin SeqToSet(rp))
      addedProps == SelectSeq(rp, LAMBDA x : x \notin SeqToSet(lp))
  IN [i \in 1..Len(removedProps) |->
        [op |-> "noRhs",
         l |-> CreateObjectPropertyNode(GetProp(l.value, removedProps[i]), removedProps[i], l, NoPos)]]
     \o [i \in 1..Len(addedProps) |->
        [op |-> "noLhs",
         r |-> CreateObjectPropertyNode(GetProp(r.value, addedProps[i]), addedProps[i], r, NoPos)]]
     \o [i \in 1..Len(sharedProps) |-> ComparePropertyTask(l, r, sharedProps[i])]

\* Map.prototype.has / get / keys: keys are looked up by identity
MapKeys(v) == [i \in 1..Len(v.entries) |-> v.entries[i].key]
MapHas(v, key) == \E i \in 1..Len(v.entries) : v.entries[i].key = key
MapGet(v, key) ==
  IF MapHas(v, key)
  THEN v.entries[CHOOSE i \in 1..Len(v.entries) : v.entries[i].key = key].value
  ELSE Undef

\* Compare.createMapElementNode: the rhs node comes from the super method,
\* which is handed undefined for the position; the lhs node glopped onto it
\* carries the position the caller passed
CompareMapElementTask(l, r, key, position) ==
  [op |-> "compare",
   l |-> [value |-> MapGet(l.value, key), property |-> key, position |-> position,
          parentNode |-> l],
   r |-> CreateMapElementNode(MapGet(r.value, key), key, r, NoPos)]

\* Compare.visitMap: noRhs for the removed keys, noLhs for the added keys
\* (either loop turns strictOrdering off), then the visit of the shared keys
MapTasks(l, r, o) ==
  LET sharedProps == SelectSeq(MapKeys(l.value), LAMBDA k : MapHas(r.value, k))
      removedProps == SelectSeq(MapKeys(l.value), LAMBDA k : ~MapHas(r.value, k))
      addedProps == SelectSeq(MapKeys(r.value), LAMBDA k : ~MapHas(l.value, k))
      strictOrdering == o.strictMapOrdering /\ removedProps = <<>> /\ addedProps = <<>>
  IN [i \in 1..Len(removedProps) |->
        [op |-> "noRhs",
         l |-> CreateMapElementNode(MapGet(l.value, removedProps[i]), removedProps[i], l, NoPos)]]
     \o [i \in 1..Len(addedProps) |->
        [op |-> "noLhs",
         r |-> CreateMapElementNode(MapGet(r.value, addedProps[i]), addedProps[i], r, NoPos)]]
     \o [i \in 1..Len(sharedProps) |->
        CompareMapElementTask(l, r, sharedProps[i], IF strictOrdering THEN Pos(i - 1) ELSE NoPos)]

\* Set.prototype.has: members are looked up by identity
SetHas(v, x) == \E i \in 1..Len(v.elems) : v.elems[i] = x

\* Compare.createSetElementNode: the rhs node from the super method and the
\* lhs node glopped onto it, both with the value and the position passed
CompareSetElementTask(l, r, value, position) ==
  [op |-> "compare",
   l |-> [value |-> value, property |-> <<>>, position |-> position, parentNode |-> l],
   r |-> CreateSetElementNode(value, r, position)]

\* Compare.visitSet: noRhs for the removed members, noLhs for the added
\* ones, then the visit of the shared members, tail first
SetTasks(l, r, o) ==
  LET sharedValues == SelectSeq(l.value.elems, LAMBDA x : SetHas(r.value, x))
      removedValues == SelectSeq(l.value.elems, LAMBDA x : ~SetHas(r.value, x))
      addedValues == SelectSeq(r.value.elems, LAMBDA x : ~SetHas(l.value, x))
      strictOrdering == o.strictSetOrdering /\ removedValues = <<>> /\ addedValues = <<>>
      n == Len(sharedValues)
  IN [i \in 1..Len(removedValues) |->
        [op |-> "noRhs", l |-> CreateSetElementNode(removedValues[i], l, NoPos)]]
     \o [i \in 1..Len(addedValues) |->
        [op |-> "noLhs", r |-> CreateSetElementNode(addedValues[i], r, NoPos)]]
     \o [i \in 1..n |->
        CompareSetElementTask(l, r, sharedValues[n + 1 - i],
                              IF strictOrdering THEN Pos(n - i) ELSE NoPos)]

\* Compare.visitArray: the element nodes of one side
ArrayElems(n, o) ==
  [i \in 1..Len(n.value.elems) |->
     CreateArrayElementNode(n.value.elems[i], i - 1, n,
                            IF o.laxArrayOrdering THEN NoPos ELSE Pos(i - 1))]

ElemOrNil(elems, i) == IF i <= Len(elems) THEN elems[i] ELSE Nil

\* Compare.visitArray, strict branch with the loop running head to tail
StrictArrayTasksAscending(l, r, o) ==
  LET le == ArrayElems(l, o)
      re == ArrayElems(r, o)
      n == IF Len(le) > Len(re) THEN Len(le) ELSE Len(re)
  IN [k \in 1..n |-> [op |-> "compare", l |-> ElemOrNil(le, k), r |-> ElemOrNil(re, k)]]
\* Compare.visitArray, strict branch: index by index up to the longer length,
\* from the tail backward
StrictArrayTasks(l, r, o) ==
  LET le == ArrayElems(l, o)
      re == ArrayElems(r, o)
      n == IF Len(le) > Len(re) THEN Len(le) ELSE Len(re)
  IN [k \in 1..n |->
        [op |-> "compare", l |-> ElemOrNil(le, n + 1 - k), r |-> ElemOrNil(re, n + 1 - k)]]

\* Compare.visitArray, lax branch after the matching, with the removals in
\* ascending lhs order
LaxArrayTasksAscending(le, re, sharedIdx, removedIdx, consumedRhsIdx) ==
  LET addedIdx == SelectSeq([i \in 1..Len(re) |-> i - 1],
                            LAMBDA i : i \notin SeqToSet(consumedRhsIdx))
      sh == Reverse(sharedIdx)
  IN [k \in 1..Len(sh) |-> [op |-> "compare", l |-> le[sh[k].lhIdx + 1], r |-> re[sh[k].rhIdx + 1]]]
     \o [k \in 1..Len(removedIdx) |-> [op |-> "noRhs", l |-> le[removedIdx[k].lhIdx + 1]]]
     \o [k \in 1..Len(addedIdx) |-> [op |-> "noLhs", r |-> re[addedIdx[k] + 1]]]
\* Compare.visitArray, lax branch after the matching: the shared pairs in
\* descending lhs order, the removals in descending lhs order, the additions
\* in ascending rhs order.  sharedIdx and removedIdx arrive in ascending lhs order.
LaxArrayTasks(le, re, sharedIdx, removedIdx, consumedRhsIdx) ==
  LET addedIdx == SelectSeq([i \in 1..Len(re) |-> i - 1],
                            LAMBDA i : i \notin SeqToSet(consumedRhsIdx))
      sh == Reverse(sharedIdx)
      rm == Reverse(removedIdx)
  IN [k \in 1..Len(sh) |-> [op |-> "compare", l |-> le[sh[k].lhIdx + 1], r |-> re[sh[k].rhIdx + 1]]]
     \o [k \in 1..Len(rm) |-> [op |-> "noRhs", l |-> le[rm[k].lhIdx + 1]]]
     \o [k \in 1..Len(addedIdx) |-> [op |-> "noLhs", r |-> re[addedIdx[k] + 1]]]

\* Compare.compare, the typeOf of the two nodes differ, with every such pair
\* reported as notEqual
KindsDifferNotEqual(l, r, ctx) ==
  IF ctx.opts.looseEquality /\ LooseEq(l.value, r.value) THEN AreEqual(ctx, l, r, IS_EQUAL_B)
  ELSE NotEqual(ctx, l, r, NOT_EQUAL)
\* Compare.compare, the typeOf of the two nodes differ: the loose comparison
\* when looseEquality is on, then an undefined side counts as a missing node
KindsDiffer(l, r, ctx) ==
  IF ctx.opts.looseEquality /\ LooseEq(l.value, r.value) THEN AreEqual(ctx, l, r, IS_EQUAL_B)
  ELSE IF UpdateNodeTypeOf(l.value) = "undefined" THEN NoLhs(ctx, r)
  ELSE IF UpdateNodeTypeOf(r.value) = "undefined" THEN NoRhs(ctx, l)
  ELSE NotEqual(ctx, l, r, NOT_EQUAL)

RECURSIVE Compare(_, _, _), SuperVisit(_, _, _), RunTasks(_, _), VisitObject(_, _, _)
RECURSIVE VisitArray(_, _, _), LaxMatch(_, _, _, _, _, _, _), FindIndexOf(_, _, _, _), Find(_, _, _)

\* Compare.compare
Compare(l, r, ctx0) ==
  LET ctx == Logged(ctx0, "compare", l, r)
  IN IF l = Nil THEN (IF r # Nil THEN NoLhs(ctx, r) ELSE AreEqual(ctx, l, r, IS_SAME))
     ELSE IF r = Nil THEN NoRhs(ctx, l)
     ELSE IF l.position # r.position THEN NotEqual(ctx, l, r, NOT_EQUAL)
     ELSE IF ObjectIs(l.value, r.value) THEN AreEqual(ctx, l, r, IS_SAME)
     ELSE IF UpdateNodeTypeOf(l.value) = UpdateNodeTypeOf(r.value) THEN SuperVisit(l, r, ctx)
     ELSE KindsDiffer(l, r, ctx)

\* Visitor.visit, called on the rhs node that carries its lhs
SuperVisit(l, r, ctx) ==
  IF HasReference(ctx, r) THEN [ctx |-> ctx, ret |-> "false"]
  ELSE CASE UpdateNodeTypeOf(r.value) = "array" -> VisitArray(l, r, AddReference(ctx, r))
         [] UpdateNodeTypeOf(r.value) = "object" -> VisitObject(l, r, AddReference(ctx, r))
         [] UpdateNodeTypeOf(r.value) = "map" ->
              RunTasks(MapTasks(l, r, ctx.opts), AddReference(ctx, r))
         [] UpdateNodeTypeOf(r.value) = "set" ->
              RunTasks(SetTasks(l, r, ctx.opts), AddReference(ctx, r))
         [] OTHER -> VisitOther(l, r, ctx)

\* the loops of the container visitors: each outcome in turn, returning at
\* the first one that is neither true nor false
RunTasks(tasks, ctx) ==
  IF tasks = <<>> THEN [ctx |-> ctx, ret |-> "false"]
  ELSE LET t == Head(tasks)
           res == CASE t.op = "noRhs" -> NoRhs(ctx, t.l)
                    [] t.op = "noLhs" -> NoLhs(ctx, t.r)
                    [] OTHER -> Compare(t.l, t.r, ctx)
       IN IF Stops(res.ret) THEN res ELSE RunTasks(Tail(tasks), res.ctx)

\* Compare.visitObject
VisitObject(l, r, ctx) ==
  IF PropFilterThrows(r.value, ctx.opts) \/ PropFilterThrows(l.value, ctx.opts)
  THEN [ctx |-> [ctx EXCEPT !.threw = TRUE], ret |-> "throw"]
  ELSE RunTasks(ObjectTasks(l, r, ctx.opts), ctx)

\* Compare.visitArray
VisitArray(l, r, ctx) ==
  IF ctx.opts.laxArrayOrdering
  THEN LaxMatch(0, ArrayElems(l, ctx.opts), ArrayElems(r, ctx.opts), <<>>, <<>>, <<>>, ctx)
  ELSE RunTasks(StrictArrayTasks(l, r, ctx.opts), ctx)

\* Compare.visitArray, lax branch: the matching loop over the lhs elements
LaxMatch(i, le, re, consumedRhsIdx, sharedIdx, removedIdx, ctx) ==
  IF i >= Len(le)
  THEN RunTasks(LaxArrayTasks(le, re, sharedIdx, removedIdx, consumedRhsIdx), ctx)
  ELSE LET f == FindIndexOf(le[i + 1], re, consumedRhsIdx, ctx)
       IN IF f.ctx.threw THEN [ctx |-> f.ctx, ret |-> "throw"]
          ELSE IF f.rhIdx < 0
          THEN LaxMatch(i + 1, le, re, f.matches, sharedIdx,
                        Append(removedIdx, [lhIdx |-> i, rhIdx |-> 0 - 1]), f.ctx)
          ELSE LaxMatch(i + 1, le, re, f.matches,
                        Append(sharedIdx, [lhIdx |-> i, rhIdx |-> f.rhIdx]), removedIdx, f.ctx)

\* Compare.findIndexOf over all candidates of the kind, consumed or not
FindIndexOfAny(elem, array, matches, ctx) ==
  LET sameType == SelectSeq(array, LAMBDA x :
                    UpdateNodeTypeOf(x.value) = UpdateNodeTypeOf(elem.value))
      f == Find(elem, sameType, ctx)
  IN IF sameType = <<>> THEN [rhIdx |-> 0 - 1, matches |-> matches, ctx |-> ctx]
     ELSE IF f.found # Nil
          THEN [rhIdx |-> f.found.property, matches |-> Append(matches, f.found.property), ctx |-> f.ctx]
          ELSE [rhIdx |-> 0 - 1, matches |-> matches, ctx |-> f.ctx]
\* Compare.findIndexOf
FindIndexOf(elem, array, matches, ctx) ==
  LET sameType == SelectSeq(array, LAMBDA x :
                    /\ UpdateNodeTypeOf(x.value) = UpdateNodeTypeOf(elem.value)
                    /\ x.property \notin SeqToSet(matches))
      f == Find(elem, sameType, ctx)
  IN IF sameType = <<>> THEN [rhIdx |-> 0 - 1, matches |-> matches, ctx |-> ctx]
     ELSE IF f.found # Nil
          THEN [rhIdx |-> f.found.property, matches |-> Append(matches, f.found.property), ctx |-> f.ctx]
          ELSE [rhIdx |-> 0 - 1, matches |-> matches, ctx |-> f.ctx]

\* Compare.findIndexOf, the sameType.find callback without the finally block
FindUnrestored(elem, cands, ctx) ==
  IF cands = <<>> THEN [found |-> Nil, ctx |-> ctx]
  ELSE LET p == Head(cands)
           res == Compare(elem, p, [ctx EXCEPT !.searchResult = UNDEFINED, !.searching = TRUE])
           hit == res.ctx.searchResult # UNDEFINED /\ IS_EQUAL(res.ctx.searchResult)
       IN IF res.ret = "throw" THEN [found |-> Nil, ctx |-> res.ctx]
          ELSE IF hit THEN [found |-> p, ctx |-> res.ctx] ELSE Find(elem, Tail(cands), res.ctx)
\* Compare.findIndexOf, the sameType.find callback: one search comparison per
\* candidate; the finally block restores the two fields, also when the
\* comparison throws (the exception then leaves find)
Find(elem, cands, ctx) ==
  IF cands = <<>> THEN [found |-> Nil, ctx |-> ctx]
  ELSE LET p == Head(cands)
           prevSearching == ctx.searching
           prevResult == ctx.searchResult
           res == Compare(elem, p, [ctx EXCEPT !.searchResult = UNDEFINED, !.searching = TRUE])
           hit == res.ctx.searchResult # UNDEFINED /\ IS_EQUAL(res.ctx.searchResult)
           after == [res.ctx EXCEPT !.searchResult = prevResult, !.searching = prevSearching]
       IN IF res.ret = "throw" THEN [found |-> Nil, ctx |-> after]
          ELSE IF hit THEN [found |-> p, ctx |-> after] ELSE Find(elem, Tail(cands), after)

(***************************************************************************)
(* equal.ts and diff.ts: the entry points                                  *)
(***************************************************************************)
\* Equal.equal, after the comparison: "true", "false" or "undefined" from the
\* context the comparison ended with
EqualReturn(ctx) ==
  [ctx |-> ctx,
   value |-> IF ctx.threw THEN "threw"
             ELSE IF ctx.result # UNDEFINED
             THEN (IF IS_EQUAL(ctx.result) THEN "true" ELSE "false")
             ELSE "undefined"]

\* Equal.equal
EqualEqual(l, r, o) ==
  EqualReturn(Compare(RootNode(l), RootNode(r), EqualCreateContext(o)).ctx)

\* Diff.diff, after the comparison: the list of Changes, or threw when the
\* call ends in an exception
DiffReturn(ctx) ==
  [ctx |-> ctx, threw |-> ctx.threw, changes |-> IF ctx.threw THEN <<>> ELSE ctx.changes]

\* Diff.diff
DiffDiff(l, r, o) ==
  DiffReturn(Compare(RootNode(l), RootNode(r), DiffCreateContext(o)).ctx)

(***************************************************************************)
(* patch.ts: the Change model (AddToLhs, RemoveFromLhs, EditLhs and their  *)
(* undo / redo tokens).  The target is mutated in place in the source; the *)
(* operators return the target as it is after the call.  An undo token     *)
(* holds the Change and the inverse Change that undoes it.                 *)
(***************************************************************************)
\* the path segment resolves to an existing child of v
HasChild(v, seg) ==
  /\ v.t = seg.typeOf
  /\ IF v.t = "array" THEN seg.segment \in 0..(Len(v.elems) - 1)
     ELSE v.t = "object" /\ seg.segment \in DOMAIN v.vals

GetChild(v, seg) ==
  IF v.t = "array" THEN v.elems[seg.segment + 1] ELSE v.vals[seg.segment]

SetChild(v, seg, x) ==
  IF v.t = "array" THEN [v EXCEPT !.elems[seg.segment + 1] = x]
  ELSE [v EXCEPT !.vals[seg.segment] = x]

\* obj[k] = x: a new key is appended to the key order
SetKey(v, k, x) ==
  IF k \in DOMAIN v.vals THEN [v EXCEPT !.vals[k] = x]
  ELSE [v EXCEPT !.keys = Append(@, k),
                 !.vals = [j \in (DOMAIN v.vals) \cup {k} |-> IF j = k THEN x ELSE v.vals[j]]]

\* delete obj[k]
DeleteKey(v, k) ==
  [v EXCEPT !.keys = SelectSeq(@, LAMBDA j : j # k),
            !.vals = [j \in (DOMAIN v.vals) \ {k} |-> v.vals[j]]]

\* arr[i] = x: a set past the end leaves holes, which read as undefined
SetIndex(es, i, x) ==
  [j \in 1..(IF i + 1 > Len(es) THEN i + 1 ELSE Len(es)) |->
     IF j = i + 1 THEN x ELSE IF j <= Len(es) THEN es[j] ELSE Undef]

\* arr.splice(pos, 0, x): a start past the end is clamped to the length
SpliceIn(es, pos, x) ==
  LET p == IF pos > Len(es) THEN Len(es) ELSE pos
  IN SubSeq(es, 1, p) \o <<x>> \o SubSeq(es, p + 1, Len(es))

\* arr.splice(pos, 1)
SpliceOut(es, pos) ==
  IF pos \in 0..(Len(es) - 1) THEN SubSeq(es, 1, pos) \o SubSeq(es, pos + 2, Len(es)) ELSE es

Failed(v) == [ok |-> FALSE, v |-> v]

\* Remove: delete the target; the inverse puts the held value back
RemoveTerminal(v, seg) ==
  IF ~HasChild(v, seg) THEN Failed(v)
  ELSE IF v.t = "array"
  THEN [ok |-> TRUE, v |-> [v EXCEPT !.elems = SpliceOut(@, seg.segment)],
        inv |-> [kind |-> "add", value |-> GetChild(v, seg),
                 seg |-> [typeOf |-> "array", segment |-> (0 - seg.segment) - 1]]]
  ELSE [ok |-> TRUE, v |-> DeleteKey(v, seg.segment),
        inv |-> [kind |-> "add", value |-> GetChild(v, seg), seg |-> seg]]

\* Add: splice for an insert-marked segment, plain set otherwise; the
\* inverse removes what was added
AddTerminal(v, seg, x) ==
  IF v.t # seg.typeOf \/ ~IsContainer(v) THEN Failed(v)
  ELSE IF v.t = "array"
  THEN IF seg.segment < 0
       THEN LET pos == (0 - seg.segment) - 1
                p == IF pos > Len(v.elems) THEN Len(v.elems) ELSE pos
            IN [ok |-> TRUE, v |-> [v EXCEPT !.elems = SpliceIn(@, pos, x)],
                inv |-> [kind |-> "remove", value |-> Undef,
                         seg |-> [typeOf |-> "array", segment |-> p]]]
       ELSE [ok |-> TRUE, v |-> [v EXCEPT !.elems = SetIndex(@, seg.segment, x)],
             inv |-> [kind |-> "remove", value |-> Undef, seg |-> seg]]
  ELSE [ok |-> TRUE, v |-> SetKey(v, seg.segment, x),
        inv |-> [kind |-> "remove", value |-> Undef, seg |-> seg]]

\* Edit: replace the value; the prior value is part of the undo token
EditTerminal(v, seg, x) ==
  IF ~HasChild(v, seg) THEN Failed(v)
  ELSE [ok |-> TRUE, v |-> SetChild(v, seg, x),
        inv |-> [kind |-> "edit", value |-> GetChild(v, seg), seg |-> seg]]

Terminal(v, seg, c) ==
  CASE c.kind = "remove" -> RemoveTerminal(v, seg)
    [] c.kind = "add" -> AddTerminal(v, seg, c.value)
    [] OTHER -> EditTerminal(v, seg, c.value)

RECURSIVE ApplyAt(_, _, _)
\* a walk that creates the record key an intermediate segment misses and
\* keeps what it did when a later step fails
ApplyAtVivify(v, path, c) ==
  IF Len(path) = 0
  THEN [ok |-> TRUE, v |-> v, inv |-> [kind |-> c.kind, value |-> v, seg |-> <<>>]]
  ELSE IF Len(path) = 1 THEN Terminal(v, path[1], c)
  ELSE IF ~HasChild(v, path[1])
  THEN [ok |-> FALSE,
        v |-> IF v.t = "object" /\ path[1].typeOf = "object"
              THEN SetKey(v, path[1].segment, Undef) ELSE v]
  ELSE LET sub == ApplyAt(GetChild(v, path[1]), Tail(path), c)
       IN IF sub.ok THEN [sub EXCEPT !.v = SetChild(v, path[1], sub.v)]
          ELSE [ok |-> FALSE, v |-> SetChild(v, path[1], sub.v)]

\* walk the path; nothing is changed when a segment does not resolve.  The
\* empty path addresses the root itself: the call succeeds and hands back
\* the root as the previous value, but there is no parent slot to change.
ApplyAt(v, path, c) ==
  IF Len(path) = 0
  THEN [ok |-> TRUE, v |-> v, inv |-> [kind |-> c.kind, value |-> v, seg |-> <<>>]]
  ELSE IF Len(path) = 1 THEN Terminal(v, path[1], c)
  ELSE IF ~HasChild(v, path[1]) THEN Failed(v)
  ELSE LET sub == ApplyAt(GetChild(v, path[1]), Tail(path), c)
       IN IF sub.ok THEN [sub EXCEPT !.v = SetChild(v, path[1], sub.v)] ELSE Failed(v)

NoToken == [ok |-> FALSE]

\* Change.apply(target): the target after the call and the undo token
ChangeApply(c, tgt) ==
  LET r == ApplyAt(tgt, c.path, c)
  IN IF r.ok
     THEN [target |-> r.v,
           token |-> [ok |-> TRUE, change |-> c,
                      inverse |-> [kind |-> r.inv.kind, value |-> r.inv.value,
                                   path |-> IF c.path = <<>> THEN <<>>
                                           ELSE [c.path EXCEPT ![Len(c.path)] = r.inv.seg]]]]
     ELSE [target |-> r.v, token |-> NoToken]

\* UndoToken.undo(): applies the inverse Change
TokenUndo(tok, tgt) == ChangeApply(tok.inverse, tgt).target

\* RedoToken.redo(): applies the Change again
TokenRedo(tok, tgt) == ChangeApply(tok.change, tgt)

(***************************************************************************)
(* traverse.ts: Traverse.  A visit returns true, false, another falsy      *)
(* value, or a value that is not a boolean (the node the callback returned)*)
(***************************************************************************)
T_TRUE == [k |-> "true"]
T_FALSE == [k |-> "false"]
T_NULL == [k |-> "null"]

\* the test "if (r)" in the place of "if (r && typeof r !== 'boolean')"
IsAbortTruthy(r) == r.k \in {"true", "node"}
\* r && typeof r !== 'boolean'
IsAbort(r) == r.k = "node"

\* Traverse.createContext: the Visitor context and the callback (when given).
\* calls is the record of the callback invocations made on this context,
\* fns the record of the calls of a child wrapper function.
TraverseCreateContext(o, cb) ==
  [opts |-> o, refs |-> VisitorCreateContext(o).refs, callback |-> cb,
   calls |-> <<>>, fns |-> <<>>]

\* the positions from the root down to the node
RECURSIVE NodePath(_)
NodePath(node) ==
  IF node.parentNode = Nil THEN <<>>
  ELSE Append(NodePath(node.parentNode), node.position[1])

\* the identity of a value: the instance of a container, the value of a leaf
Ident(v) == IF IsContainer(v) THEN [t |-> v.t, id |-> v.id] ELSE v

\* the nodes the loops of Visitor.visitObject, visitMap and visitArray hand
\* to visit, in enumeration order
ChildNodes(node, o) ==
  LET v == node.value
  IN CASE v.t = "array" ->
            [i \in 1..Len(v.elems) |->
               CreateArrayElementNode(v.elems[i], i - 1, node, Pos(i - 1))]
       [] v.t = "object" ->
            LET ps == UpdateObjectNodeProperties(v, o)
            IN [i \in 1..Len(ps) |->
                  CreateObjectPropertyNode(v.vals[ps[i]], ps[i], node, Pos(i - 1))]
       [] v.t = "map" ->
            [i \in 1..Len(v.entries) |->
               CreateMapElementNode(v.entries[i].value, v.entries[i].key, node, Pos(i - 1))]

\* The callbacks of the model (TraverseVisitorFnType).  The callback returns
\* the node itself when the node's value is cb.stop or of the kind
\* cb.stopKind; for any other container it returns cb.containers: true,
\* false, undefined ("falsy"), a child wrapper function ("fn") or the child
\* nodes in reverse order ("children"); for any other leaf it returns true.
TraverseCallback(cb, node) ==
  IF (cb.stop # None /\ ObjectIs(node.value, cb.stop)) \/ node.value.t = cb.stopKind
  THEN [k |-> "node", path |-> NodePath(node), value |-> Ident(node.value)]
  ELSE IF IsContainer(node.value) THEN [k |-> cb.containers] ELSE T_TRUE

RECURSIVE TraverseVisit(_, _), TraverseVisitNode(_, _, _), VisitChildren(_, _, _)

\* the loop over child nodes in Visitor.visitObject / visitMap / visitArray
\* (done is true) and over the nodes the callback returned in
\* Traverse.visitNode (done is false)
VisitChildren(kids, ctx, done) ==
  IF kids = <<>> THEN [ctx |-> ctx, ret |-> done]
  ELSE LET res == TraverseVisit(Head(kids), ctx)
       IN IF IsAbort(res.ret) THEN res ELSE VisitChildren(Tail(kids), res.ctx, done)

\* Visitor.visit: the guard against circular references, then the dispatch
\* on the kind of the node
TraverseVisit(node, ctx) ==
  IF HasReference(ctx, node) THEN [ctx |-> ctx, ret |-> T_FALSE]
  ELSE IF IsContainer(node.value)
       THEN TraverseVisitNode(node, AddReference(ctx, node), TRUE)
       ELSE TraverseVisitNode(node, ctx, FALSE)

\* Traverse.visitNode; hasChildren: a childVisitorFn was passed
TraverseVisitNode(node, ctx, hasChildren) ==
  LET kids == IF hasChildren THEN ChildNodes(node, ctx.opts) ELSE <<>>
      result == TraverseCallback(ctx.callback, node)
      c1 == [ctx EXCEPT !.calls = Append(@, [path |-> NodePath(node),
                                             value |-> Ident(node.value),
                                             result |-> result.k])]
  IN IF ctx.callback = None
     THEN IF hasChildren THEN VisitChildren(kids, ctx, T_TRUE)
          ELSE [ctx |-> ctx, ret |-> T_TRUE]
     ELSE CASE result.k = "children" -> VisitChildren(Reverse(kids), c1, T_FALSE)
            [] result.k = "fn" /\ hasChildren ->
                 LET res == VisitChildren(kids, [c1 EXCEPT !.fns = Append(@, "first")], T_TRUE)
                 IN [ctx |-> [res.ctx EXCEPT !.fns = Append(@, "second")], ret |-> res.ret]
            [] result.k = "fn" /\ ~hasChildren -> [ctx |-> c1, ret |-> T_TRUE]
            [] result.k = "true" /\ hasChildren -> VisitChildren(kids, c1, T_TRUE)
            [] OTHER -> [ctx |-> c1, ret |-> result]

\* Traverse.traverse: the value the callback aborted with, or null
TraverseTraverse(v, cb, o) ==
  LET res == TraverseVisit(RootNode(v), TraverseCreateContext(o, cb))
  IN [ctx |-> res.ctx, value |-> IF IsAbort(res.ret) THEN res.ret ELSE T_NULL]

(***************************************************************************)
(* copy.ts: Copy.  A mirror is the copy made of a node's value; fresh is   *)
(* the identity the next new instance gets.                                *)
(***************************************************************************)
\* an index of a new Array(n) that was never assigned
Hole == [t |-> "empty"]
\* the mirror of a node is an instance that was created before
MirrorRef(id) == [t |-> "mirror", id |-> id]

\* Copy.createContext
CopyCreateContext(o) ==
  [opts |-> o, refs |-> VisitorCreateContext(o).refs, refMirrors |-> <<>>, fresh |-> 1000]

\* defaultCreateCopy: a primitive is returned as it is; a sequence, a
\* mapping and a record get a new instance without children, a timestamp a
\* new instance of the same time
CreatesInstance(v) == v.t \in {"array", "map", "object", "date"}
DefaultCreateCopy(v, id) ==
  CASE v.t = "array" -> Arr(id, [i \in 1..Len(v.elems) |-> Hole])
    [] v.t = "date" -> DateOf(id, v.time)
    [] v.t = "map" -> MapOf(id, <<>>)
    [] v.t = "object" -> Obj(id, <<>>, <<>>)
    [] OTHER -> v

\* Visitor.indexOfReference: the index in ctx.refs, or -1
IndexOfReference(ctx, node) ==
  IF HasReference(ctx, node)
  THEN (CHOOSE i \in 1..Len(ctx.refs) :
          /\ ctx.refs[i] = node.value.id
          /\ \A j \in 1..(i - 1) : ctx.refs[j] # node.value.id) - 1
  ELSE 0 - 1

\* refMirrors[idx] = mirror (the array adjusts its length)
SetRefMirror(ms, idx, id) ==
  [i \in 1..(IF idx + 1 > Len(ms) THEN idx + 1 ELSE Len(ms)) |->
     IF i = idx + 1 THEN MirrorRef(id) ELSE IF i <= Len(ms) THEN ms[i] ELSE None]

\* Copy.AddObjectProperty: parent.mirror[child.property] = child.mirror
AddObjectProperty(parent, child, m) ==
  Obj(parent.id,
      IF child.property \in SeqToSet(parent.keys) THEN parent.keys
      ELSE Append(parent.keys, child.property),
      [k \in (DOMAIN parent.vals) \cup {child.property} |->
         IF k = child.property THEN m ELSE parent.vals[k]])
\* Copy.AddMapElement: parent.mirror.set(child.property, child.mirror)
AddMapElement(parent, child, m) ==
  MapOf(parent.id, Append(parent.entries, [key |-> child.property, value |-> m]))
\* Copy.AddArrayElement: parent.mirror[child.property] = child.mirror
AddArrayElement(parent, child, m) ==
  Arr(parent.id, [parent.elems EXCEPT ![child.property + 1] = m])
\* node.addChildFn, as the create...Node specializations of Copy set it
AddChildFn(parent, child, m) ==
  CASE parent.t = "array" -> AddArrayElement(parent, child, m)
    [] parent.t = "map" -> AddMapElement(parent, child, m)
    [] parent.t = "object" -> AddObjectProperty(parent, child, m)

RECURSIVE CopyVisit(_, _), CopyVisitNode(_, _, _), CopyChildren(_, _, _)

\* Visitor.visit on a Copy: a node whose value is already in ctx.refs is
\* left at once, visitNode is not reached (added: visitNode ran and called
\* the node's addChildFn)
CopyVisit(node, ctx) ==
  IF HasReference(ctx, node)
  THEN [ctx |-> ctx, ret |-> T_FALSE, mirror |-> None, added |-> FALSE]
  ELSE IF IsContainer(node.value)
       THEN CopyVisitNode(node, AddReference(ctx, node), TRUE)
       ELSE CopyVisitNode(node, ctx, FALSE)

\* Copy.visitNode
CopyVisitNode(node, ctx, hasChildren) ==
  LET guard == ctx.opts.guardCircularRefs
      idx == IndexOfReference(ctx, node)
      created == DefaultCreateCopy(node.value, ctx.fresh)
      c1 == [ctx EXCEPT !.fresh = IF CreatesInstance(node.value) THEN @ + 1 ELSE @,
                        !.refMirrors = IF guard /\ idx >= 0
                                       THEN SetRefMirror(@, idx, ctx.fresh) ELSE @]
  IN IF guard /\ idx >= 0 /\ idx < Len(ctx.refMirrors)
     THEN [ctx |-> ctx, ret |-> T_FALSE, mirror |-> ctx.refMirrors[idx + 1], added |-> TRUE]
     ELSE IF hasChildren THEN CopyChildren(ChildNodes(node, ctx.opts), c1, created)
     ELSE [ctx |-> c1, ret |-> T_TRUE, mirror |-> created, added |-> TRUE]

\* the loops of Visitor.visitObject / visitMap / visitArray on a Copy: each
\* child that reached visitNode is added to the mirror of its parent
CopyChildren(kids, ctx, parent) ==
  IF kids = <<>> THEN [ctx |-> ctx, ret |-> T_TRUE, mirror |-> parent, added |-> TRUE]
  ELSE LET res == CopyVisit(Head(kids), ctx)
           pm == IF res.added THEN AddChildFn(parent, Head(kids), res.mirror) ELSE parent
       IN IF IsAbort(res.ret)
          THEN [ctx |-> res.ctx, ret |-> res.ret, mirror |-> pm, added |-> TRUE]
          ELSE CopyChildren(Tail(kids), res.ctx, pm)

\* Copy.copy
CopyCopy(v, o) ==
  LET res == CopyVisit(RootNode(v), CopyCreateContext(o))
  IN [ctx |-> res.ctx, value |-> IF res.ret.k \in {"true", "false"} THEN res.mirror ELSE Undef]

(***************************************************************************)
(* The graphs and options the operations are run on                        *)
(***************************************************************************)
MaxLen == 2

SeqsUpTo(S, n) == UNION {[1..k -> S] : k \in 0..n}
Arrays(S, n) == {Arr(0, es) : es \in SeqsUpTo(S, n)}
KeyLists == {<<>>, <<"a">>, <<"b">>, <<"a", "b">>, <<"b", "a">>}
Objects(S) == UNION {{Obj(0, ks, vs) : vs \in [SeqToSet(ks) -> S]} : ks \in KeyLists}

RECURSIVE Label(_, _)
\* give every container of the graph an identity of its own
Label(v, id) ==
  CASE v.t = "array" ->
         Arr(id, [i \in 1..Len(v.elems) |-> Label(v.elems[i], (id * 8) + i)])
    [] v.t = "object" ->
         Obj(id, v.keys,
             [k \in DOMAIN v.vals |->
                Label(v.vals[k], (id * 8) + (CHOOSE i \in 1..Len(v.keys) : v.keys[i] = k))])
    [] v.t = "map" ->
         MapOf(id, [i \in 1..Len(v.entries) |->
                      [key |-> Label(v.entries[i].key, (id * 8) + 4 + i),
                       value |-> Label(v.entries[i].value, (id * 8) + i)]])
    [] v.t = "set" -> SetOf(id, [i \in 1..Len(v.elems) |-> Label(v.elems[i], (id * 8) + i)])
    [] v.t = "date" -> DateOf(id, v.time)
    [] OTHER -> v

RECURSIVE StructuralCopy(_)
\* a structural copy: the same shape and leaves, new container instances
StructuralCopy(v) ==
  CASE v.t = "array" ->
         Arr(v.id + 1000, [i \in 1..Len(v.elems) |-> StructuralCopy(v.elems[i])])
    [] v.t = "object" ->
         Obj(v.id + 1000, v.keys, [k \in DOMAIN v.vals |-> StructuralCopy(v.vals[k])])
    [] OTHER -> v

RECURSIVE Canon(_)
\* the structural state of a graph: key order and identity put aside
Canon(v) ==
  CASE v.t = "array" -> [t |-> "array", elems |-> [i \in 1..Len(v.elems) |-> Canon(v.elems[i])]]
    [] v.t = "object" -> [t |-> "object", vals |-> [k \in DOMAIN v.vals |-> Canon(v.vals[k])]]
    [] OTHER -> v

InnerLeaves == {Undef, Num(1), Num(2)}
Flat == Arrays(InnerLeaves, MaxLen) \cup Objects(InnerLeaves)
Mid == {Num(1), Arr(0, <<>>), Arr(0, <<Num(2), Num(1)>>), Obj(0, <<"a">>, [a |-> Undef])}
Nested == Arrays(Mid, MaxLen) \cup {Obj(0, <<"a">>, [a |-> x]) : x \in Mid}
Graphs == {Undef, Null, Num(1), Str("a")} \cup Flat \cup Nested

\* option combinations: looseEquality, laxArrayOrdering, guardCircularRefs
OptionSets ==
  {[DefaultOpts EXCEPT !.looseEquality = le, !.laxArrayOrdering = lax, !.guardCircularRefs = g] :
     le \in BOOLEAN, lax \in BOOLEAN, g \in BOOLEAN}
LaxOpts == [DefaultOpts EXCEPT !.laxArrayOrdering = TRUE]

OptLeaves == {Undef, Null, NaN, Num(1), Str("1"), Str("a")}
OptGraphs ==
  OptLeaves \cup Arrays({Num(1), Num(2), Arr(0, <<>>)}, MaxLen)
            \cup Objects({Undef, Null, Num(1)})
            \cup {Arr(0, <<Str("a")>>), Arr(0, <<NaN>>), Obj(0, <<"a">>, [a |-> Arr(0, <<Num(1)>>)])}

LaxElems == {Undef, Num(1), Arr(0, <<>>), Arr(0, <<Num(1), Num(2)>>),
             Arr(0, <<Num(2), Num(1)>>), Obj(0, <<"a">>, [a |-> Undef])}
LaxArrays == Arrays(LaxElems, MaxLen)
Perms(n) == {f \in [1..n -> 1..n] : \A i, j \in 1..n : f[i] = f[j] => i = j}

(***************************************************************************)
(* The state machine: one caller that runs equal(lhs, rhs), diff(lhs, rhs),*)
(* applies the Changes one by one to a structural copy of lhs (with an     *)
(* optional undo / redo after each), and compares the outcome with rhs.    *)
(***************************************************************************)
StartWith(l, r, o, cb) ==
  /\ lhs = l /\ rhs = r /\ opts = o
  /\ pc = "start"
  /\ eq = None /\ df = None /\ check = None
  /\ target = None /\ before = None /\ token = NoToken
  /\ nextChange = 0
  /\ callback = cb /\ trav = None /\ mirror = None
  /\ reuse = None

Start(l, r, o) == StartWith(l, r, o, None) /\ heaps = None

Init == \E a \in Graphs, b \in Graphs : Start(Label(a, 1), Label(b, 2), DefaultOpts)

\* all option combinations; rhs is another graph or the very same instance
InitOptions ==
  \E a \in OptGraphs, b \in OptGraphs, same \in BOOLEAN, o \in OptionSets :
    /\ same => b = a
    /\ Start(Label(a, 1), IF same THEN Label(a, 1) ELSE Label(b, 2), o)

\* laxArrayOrdering: two sequences, or a sequence and a permutation of it
\* holding the same element instances
InitLax ==
  \/ \E a \in LaxArrays, b \in LaxArrays : Start(Label(a, 1), Label(b, 2), LaxOpts)
  \/ \E a \in LaxArrays : \E f \in Perms(Len(a.elems)) :
       Start(Label(a, 1), Arr(2, [i \in 1..Len(a.elems) |-> Label(a, 1).elems[f[i]]]), LaxOpts)

\* deepEqual(lhs, rhs)
CallEqual ==
  /\ pc = "start"
  /\ eq' = EqualEqual(lhs, rhs, opts)
  /\ pc' = "compared"
  /\ UNCHANGED <<lhs, rhs, opts, df, target, nextChange, before, token, check, callback, trav, mirror, heaps, reuse>>

\* deepDiff(lhs, rhs); the Changes are then applied to a structural copy of lhs
CallDiff ==
  /\ pc = "compared"
  /\ df' = DiffDiff(lhs, rhs, opts)
  /\ pc' = IF df'.threw THEN "threw" ELSE "diffed"
  /\ target' = StructuralCopy(lhs)
  /\ nextChange' = 1
  /\ UNCHANGED <<lhs, rhs, opts, eq, before, token, check, callback, trav, mirror, heaps, reuse>>

\* d[nextChange].apply(target)
CallApply ==
  /\ pc \in {"diffed", "applied", "redone"}
  /\ nextChange <= Len(df.changes)
  /\ LET a == ChangeApply(df.changes[nextChange], target)
     IN /\ target' = a.target
        /\ token' = a.token
  /\ before' = target
  /\ nextChange' = nextChange + 1
  /\ pc' = "applied"
  /\ UNCHANGED <<lhs, rhs, opts, eq, df, check, callback, trav, mirror, heaps, reuse>>

\* token.undo()
CallUndo ==
  /\ pc = "applied"
  /\ token.ok
  /\ target' = TokenUndo(token, target)
  /\ pc' = "undone"
  /\ UNCHANGED <<lhs, rhs, opts, eq, df, nextChange, before, token, check, callback, trav, mirror, heaps, reuse>>

\* token.undo().redo()
CallRedo ==
  /\ pc = "undone"
  /\ target' = TokenRedo(token, target).target
  /\ pc' = "redone"
  /\ UNCHANGED <<lhs, rhs, opts, eq, df, nextChange, before, token, check, callback, trav, mirror, heaps, reuse>>

\* every Change applied: compare the outcome with rhs
CallCheck ==
  /\ pc \in {"diffed", "applied", "redone"}
  /\ nextChange > Len(df.changes)
  /\ check' = EqualEqual(target, rhs, opts)
  /\ pc' = "done"
  /\ UNCHANGED <<lhs, rhs, opts, eq, df, target, nextChange, before, token, callback, trav, mirror, heaps, reuse>>

Next == CallEqual \/ CallDiff \/ CallApply \/ CallUndo \/ CallRedo \/ CallCheck

Spec == Init /\ [][Next]_vars
SpecOptions == InitOptions /\ [][Next]_vars
SpecLax == InitLax /\ [][Next]_vars

\* propFilter: records whose keys a or b are rejected by the filter, with
\* leaves, sequences and records (holding the other key) under the keys
FilterValues == {Num(1), Num(2), Arr(0, <<Num(1), Num(2)>>),
                 Obj(0, <<"b">>, [b |-> Num(1)]), Obj(0, <<"b">>, [b |-> Num(2)])}
FilterGraphs == Objects(FilterValues)
InitFilter ==
  \E a \in FilterGraphs, b \in FilterGraphs, rejected \in {{"a"}, {"b"}} :
    Start(Label(a, 1), Label(b, 2), [DefaultOpts EXCEPT !.propFilter = rejected])
SpecFilter == InitFilter /\ [][Next]_vars

\* numbers: NaN and numbers at the root, in records and in sequences, with
\* the default epsilon and with epsilon = 2
EpsilonSets == {[DefaultOpts EXCEPT !.epsilon = e] : e \in {<<>>, <<2>>}}
NumberGraphs ==
  {NaN, Num(1), Num(2), Num(3)} \cup Objects({NaN, Num(1), Num(2)})
                                \cup Arrays({NaN, Num(1), Num(3)}, MaxLen)
InitNumbers ==
  \E a \in NumberGraphs, b \in NumberGraphs, o \in EpsilonSets :
    Start(Label(a, 1), Label(b, 2), o)
SpecNumbers == InitNumbers /\ [][Next]_vars

\* a stale target: the Changes of diff(lhs, rhs) are applied to a third
\* graph, whose shape need not agree with their paths
StaleGraphs ==
  {Obj(0, <<"a">>, [a |-> Obj(0, <<"a">>, [a |-> Num(1)])]),
   Obj(0, <<"a">>, [a |-> Obj(0, <<"a">>, [a |-> Num(2)])]),
   Obj(0, <<"a">>, [a |-> Obj(0, <<"b">>, [b |-> Num(1)])]),
   Obj(0, <<"a">>, [a |-> Arr(0, <<Num(1), Num(2)>>)]),
   Obj(0, <<"a">>, [a |-> Arr(0, <<Num(2)>>)]),
   Obj(0, <<"a">>, [a |-> Num(1)]),
   Obj(0, <<"b">>, [b |-> Obj(0, <<"a">>, [a |-> Num(1)])]),
   Obj(0, <<"a">>, [a |-> Obj(0, <<"a">>, [a |-> Obj(0, <<"a">>, [a |-> Num(1)])])]),
   Obj(0, <<"a">>, [a |-> Obj(0, <<"a">>, [a |-> Obj(0, <<"a">>, [a |-> Num(2)])])]),
   Obj(0, <<>>, <<>>),
   Arr(0, <<Arr(0, <<Num(1), Num(2)>>)>>),
   Arr(0, <<Arr(0, <<Num(2)>>)>>),
   Arr(0, <<Obj(0, <<"a">>, [a |-> Num(1)])>>),
   Arr(0, <<>>)}
InitStale ==
  \E a \in StaleGraphs, b \in StaleGraphs, c \in StaleGraphs :
    /\ StartWith(Label(a, 1), Label(b, 2), DefaultOpts, None)
    /\ heaps = Label(c, 3)

\* d = diff(lhs, rhs); target = the third graph
CallDiffStale ==
  /\ pc = "start"
  /\ LET d == DiffDiff(lhs, rhs, opts)
     IN /\ df' = d
        /\ pc' = IF d.threw THEN "threw" ELSE "diffed"
  /\ target' = heaps
  /\ nextChange' = 1
  /\ UNCHANGED <<lhs, rhs, opts, eq, before, token, check, callback, trav, mirror, heaps, reuse>>

NextStale == CallDiffStale \/ CallApply \/ CallUndo \/ CallRedo
SpecStale == InitStale /\ [][NextStale]_vars

\* searches: sequences under laxArrayOrdering whose elements are leaves,
\* sequences (searched in turn when they are compared inside a search) and
\* records; the propFilter of the caller may throw on the key b
SearchElems ==
  {Num(1), Arr(0, <<>>), Arr(0, <<Num(1), Num(2)>>), Arr(0, <<Arr(0, <<Num(1)>>)>>),
   Obj(0, <<"a">>, [a |-> Num(1)]), Arr(0, <<Obj(0, <<"b">>, [b |-> Num(1)])>>)}
SearchArrays == Arrays(SearchElems, MaxLen)
InitSearch ==
  \E a \in SearchArrays, b \in SearchArrays, throws \in {{}, {"b"}}, guard \in BOOLEAN :
    Start(Label(a, 1), Label(b, 2),
          [LaxOpts EXCEPT !.propFilterThrows = throws, !.guardCircularRefs = guard])
SpecSearch == InitSearch /\ [][Next]_vars

\* keyed mappings of up to two entries, with strictMapOrdering on and off
MapKeySet == {Str("a"), Str("b")}
MapValues == {Num(1), Num(2), Arr(0, <<Num(1)>>)}
MapGraphs ==
  {MapOf(0, <<>>)} \cup
  {MapOf(0, <<[key |-> k, value |-> x]>>) : k \in MapKeySet, x \in MapValues} \cup
  {MapOf(0, <<[key |-> ks[1], value |-> x], [key |-> ks[2], value |-> y]>>) :
     ks \in {q \in MapKeySet \X MapKeySet : q[1] # q[2]}, x \in MapValues, y \in MapValues}
InitMaps ==
  \E a \in MapGraphs, b \in MapGraphs, strict \in BOOLEAN :
    Start(Label(a, 1), Label(b, 2), [DefaultOpts EXCEPT !.strictMapOrdering = strict])
\* mappings are compared and diffed (the patch model has no mappings)
NextMaps == CallEqual \/ CallDiff
SpecMaps == InitMaps /\ [][NextMaps]_vars

\* acyclic graphs whose right side holds one container instance under both
\* keys or at both indices, with the guard and laxArrayOrdering on and off
SharedLeaves == {Num(1), Num(2)}
SharedPairs ==
  {[l |-> Obj(0, <<"a", "b">>, [a |-> Arr(0, <<x>>), b |-> Arr(0, <<y>>)]),
    r |-> Obj(2, <<"a", "b">>, [a |-> Arr(20, <<z>>), b |-> Arr(20, <<z>>)])] :
     x \in SharedLeaves, y \in SharedLeaves, z \in SharedLeaves} \cup
  {[l |-> Arr(0, <<Arr(0, <<x>>), Arr(0, <<y>>)>>),
    r |-> Arr(2, <<Arr(20, <<z>>), Arr(20, <<z>>)>>)] :
     x \in SharedLeaves, y \in SharedLeaves, z \in SharedLeaves}
InitShared ==
  \E p \in SharedPairs, guard \in BOOLEAN, lax \in BOOLEAN :
    Start(Label(p.l, 1), p.r,
          [DefaultOpts EXCEPT !.guardCircularRefs = guard, !.laxArrayOrdering = lax])
SpecShared == InitShared /\ [][Next]_vars

\* a graph and a structurally equal copy that shares no instance with it:
\* leaves, records, sequences, mappings and unique-value collections, also
\* with containers as members or keys
SetGraphs ==
  {SetOf(0, <<>>), SetOf(0, <<Num(1)>>), SetOf(0, <<Num(1), Str("a")>>),
   SetOf(0, <<Arr(0, <<Num(1)>>)>>), SetOf(0, <<Num(1), Obj(0, <<"a">>, [a |-> Num(1)])>>),
   Arr(0, <<SetOf(0, <<Num(1)>>)>>), Arr(0, <<SetOf(0, <<Arr(0, <<>>)>>)>>),
   Obj(0, <<"a">>, [a |-> SetOf(0, <<Num(2)>>)]),
   MapOf(0, <<[key |-> Str("a"), value |-> SetOf(0, <<Num(1)>>)]>>),
   MapOf(0, <<[key |-> Arr(0, <<Num(1)>>), value |-> Num(1)]>>)}
CloneGraphs == Graphs \cup MapGraphs \cup SetGraphs
InitClone ==
  \E g \in CloneGraphs : Start(Label(g, 1), Label(g, 2), DefaultOpts)
SpecClone == InitClone /\ [][NextMaps]_vars

(***************************************************************************)
(* Properties                                                              *)
(***************************************************************************)
AfterEqual == pc # "start"
AfterDiff == pc \notin {"start", "compared"}
Returned == pc \notin {"start", "compared", "threw"}

\* b holds the elements of a in some order (the same instances or
\* structurally equal copies of them)
IsPermutationOf(a, b) ==
  /\ a.t = "array" /\ b.t = "array"
  /\ Len(a.elems) = Len(b.elems)
  /\ \E f \in Perms(Len(a.elems)) :
       \A i \in 1..Len(a.elems) : Canon(b.elems[f[i]]) = Canon(a.elems[i])

\* C1: applying the Changes of diff(lhs, rhs) one by one, in the order diff
\* emitted them, to a structural copy of lhs yields a graph that is equal to
\* rhs: equal(result, rhs) is not false.
\* (A Change with the empty path addresses the root itself, which apply
\* cannot replace in place; those runs are left out.)
C1_AppliedDiffEqualsRhs ==
  (pc = "done" /\ \A m \in 1..Len(df.changes) : df.changes[m].path # <<>>)
    => check.value # "false"

\* C2: for the very same instance on both sides and every option
\* combination, equal returns true (not undefined) and diff returns an
\* empty list.
C2_SameInstance ==
  rhs = lhs =>
    /\ AfterEqual => eq.value = "true"
    /\ AfterDiff => (~df.threw /\ df.changes = <<>>)

\* C2 witness: an empty container compared with itself under lax ordering
\* and the circular reference guard, equal and diff both done
C2_Witness ==
  /\ rhs = lhs /\ lhs.t = "object" /\ lhs.keys = <<>>
  /\ opts.laxArrayOrdering /\ opts.guardCircularRefs /\ opts.looseEquality
  /\ pc = "done" /\ eq.value = "true"

\* C3: apply followed by undo on the returned token restores the target to
\* its state before the apply (key order put aside).
C3_UndoRestores == pc = "undone" => Canon(target) = Canon(before)

\* C4: with laxArrayOrdering, when rhs is a permutation of lhs (the same
\* element instances, or structurally equal copies), diff is empty.
C4_LaxPermutationEmpty ==
  (Returned /\ opts.laxArrayOrdering /\ IsPermutationOf(lhs, rhs)) => df.changes = <<>>

Min(a, b) == IF a < b THEN a ELSE b
\* the index an array segment addresses (an insert marker -(i+1) addresses i)
SegIndex(seg) == IF seg.segment < 0 THEN (0 - seg.segment) - 1 ELSE seg.segment
SegEq(a, b) == a.typeOf = b.typeOf /\ a.segment = b.segment
SamePrefix(p, q, d) == \A k \in 1..d : SegEq(p[k], q[k])
IsPrefix(p, q) == Len(p) <= Len(q) /\ SamePrefix(p, q, Len(p))
\* the Changes at the path or below it
ChangesAt(path) == {m \in 1..Len(df.changes) : IsPrefix(path, df.changes[m].path)}

\* C5: in strict (default) mode the Changes of one sequence come in
\* descending index order: a Change at index j (or below element j) of a
\* sequence precedes every Change at a lower index i (or below element i) of
\* the same sequence.
C5_TailFirst ==
  Returned =>
    \A m, n \in 1..Len(df.changes) :
      m < n =>
        LET p == df.changes[m].path
            q == df.changes[n].path
        IN \A d \in 0..(Min(Len(p), Len(q)) - 1) :
             (SamePrefix(p, q, d) /\ p[d + 1].typeOf = "array" /\ q[d + 1].typeOf = "array")
               => SegIndex(p[d + 1]) >= SegIndex(q[d + 1])

\* C5 witness: a diff with Changes below two different elements of one
\* sequence, the ones of the higher index first
C5_Witness ==
  /\ Returned
  /\ \E m, n \in 1..Len(df.changes) :
       /\ m < n
       /\ Len(df.changes[m].path) = 2 /\ Len(df.changes[n].path) = 2
       /\ df.changes[m].path[1].typeOf = "array"
       /\ df.changes[n].path[1].typeOf = "array"
       /\ SegIndex(df.changes[m].path[1]) > SegIndex(df.changes[n].path[1])

RECURSIVE LaxSame(_, _)
\* the same graph up to the order of the elements of every sequence
LaxSame(a, b) ==
  CASE a.t = "array" /\ b.t = "array" ->
         /\ Len(a.elems) = Len(b.elems)
         /\ \E f \in Perms(Len(a.elems)) :
              \A i \in 1..Len(a.elems) : LaxSame(a.elems[i], b.elems[f[i]])
    [] a.t = "object" /\ b.t = "object" ->
         /\ DOMAIN a.vals = DOMAIN b.vals
         /\ \A k \in DOMAIN a.vals : LaxSame(a.vals[k], b.vals[k])
    [] OTHER -> a = b

IsOutcome(e) == e.ev \in {"notEqual", "noLhs", "noRhs"} /\ ~e.searching

\* C7: in equal(), the first notEqual, noLhs or noRhs outcome outside search
\* mode is the last thing that happens (no pair is compared after it) and
\* the value returned is false.
C7_EqualHalts ==
  AfterEqual =>
    \A k \in 1..Len(eq.ctx.log) :
      IsOutcome(eq.ctx.log[k]) => (k = Len(eq.ctx.log) /\ eq.value = "false")

\* C7 witness: a lax comparison in which a search comparison reported
\* notEqual, then an equal outcome was recorded outside search mode, then
\* the outcome that ends the traversal; equal returns false
C7_Witness ==
  /\ AfterEqual /\ opts.laxArrayOrdering /\ eq.value = "false"
  /\ \E j, k, n \in 1..Len(eq.ctx.log) :
       /\ j < k /\ k < n
       /\ eq.ctx.log[j].ev = "notEqual" /\ eq.ctx.log[j].searching
       /\ eq.ctx.log[k].ev = "areEqual" /\ ~eq.ctx.log[k].searching
       /\ IsOutcome(eq.ctx.log[n])

\* C8: diff() appends exactly one Change for each notEqual, noLhs and noRhs
\* outcome reached outside search mode.
C8_OneChangePerOutcome ==
  AfterDiff =>
    Len(df.changes) = Cardinality({k \in 1..Len(df.ctx.log) : IsOutcome(df.ctx.log[k])})

RECURSIVE Pairs(_, _, _), PairsAt(_, _, _, _)
\* the node pairs of the strict paired descent, each with its path: the
\* roots, and below two containers of the same kind the elements with the
\* same index and the values under the same key
Pairs(l, r, path) ==
  <<[path |-> path, l |-> l, r |-> r]>> \o
  (IF l.t = "array" /\ r.t = "array" /\ l.id # r.id
   THEN PairsAt(l, r, path,
                [i \in 1..Min(Len(l.elems), Len(r.elems)) |-> [typeOf |-> "array", segment |-> i - 1]])
   ELSE IF l.t = "object" /\ r.t = "object" /\ l.id # r.id
   THEN LET shared == SelectSeq(l.keys, LAMBDA k : k \in DOMAIN r.vals)
        IN PairsAt(l, r, path, [i \in 1..Len(shared) |-> [typeOf |-> "object", segment |-> shared[i]]])
   ELSE <<>>)
PairsAt(l, r, path, segs) ==
  IF segs = <<>> THEN <<>>
  ELSE Pairs(GetChild(l, Head(segs)), GetChild(r, Head(segs)), Append(path, Head(segs)))
       \o PairsAt(l, r, path, Tail(segs))

KindMismatch(p) == p.l.t # p.r.t /\ p.l.t # "undefined" /\ p.r.t # "undefined"

\* C9: when a paired lhs and rhs node have different kinds, neither of them
\* undefined, and looseEquality is off, diff emits exactly one Change at or
\* below the path of the pair: an Edit at that path carrying the rhs value.
C9_KindMismatchOneEdit ==
  (Returned /\ ~opts.looseEquality) =>
    \A k \in 1..Len(Pairs(lhs, rhs, <<>>)) :
      LET p == Pairs(lhs, rhs, <<>>)[k]
      IN KindMismatch(p) =>
           /\ Cardinality(ChangesAt(p.path)) = 1
           /\ \A m \in ChangesAt(p.path) :
                /\ df.changes[m].kind = "edit"
                /\ Len(df.changes[m].path) = Len(p.path)
                /\ df.changes[m].value = p.r

\* C9 witness: a record against a sequence under the same key, both with
\* children, and the diff returned
C9_Witness ==
  /\ Returned /\ ~opts.looseEquality
  /\ \E k \in 1..Len(Pairs(lhs, rhs, <<>>)) :
       LET p == Pairs(lhs, rhs, <<>>)[k]
       IN /\ Len(p.path) = 1
          /\ p.l.t = "array" /\ p.r.t = "object"
          /\ Len(p.l.elems) > 0 /\ Len(p.r.keys) > 0

KeyPath(k) == <<[typeOf |-> "object", segment |-> k]>>
\* exactly one Change at or below the key: a Change of the kind, at the key
OneAtKey(k, kind) ==
  /\ Cardinality(ChangesAt(KeyPath(k))) = 1
  /\ \A m \in ChangesAt(KeyPath(k)) :
       df.changes[m].kind = kind /\ Len(df.changes[m].path) = 1
\* the outcome for key k of the root records when a value is undefined.
\* looseNull: the cases where looseEquality pairs undefined with null are
\* stated apart
UndefinedKeyOutcome(k, looseNull) ==
  LET inL == k \in DOMAIN lhs.vals
      inR == k \in DOMAIN rhs.vals
      lv == GetProp(lhs, k)
      rv == GetProp(rhs, k)
      loose(v) == looseNull /\ opts.looseEquality /\ v = Null
  IN /\ (inL /\ inR /\ lv = Undef /\ rv # Undef /\ ~loose(rv)) =>
          (OneAtKey(k, "add") /\ \A m \in ChangesAt(KeyPath(k)) : df.changes[m].value = rv)
     /\ (inL /\ inR /\ lv # Undef /\ rv = Undef /\ ~loose(lv)) => OneAtKey(k, "remove")
     /\ (inL /\ inR /\ lv = Undef /\ rv = Undef) => ChangesAt(KeyPath(k)) = {}
     /\ (inL /\ inR /\ ((lv = Undef /\ loose(rv)) \/ (rv = Undef /\ loose(lv)))) =>
          ChangesAt(KeyPath(k)) = {}
     /\ (inL /\ ~inR /\ lv = Undef) => OneAtKey(k, "remove")
     /\ (~inL /\ inR /\ rv = Undef) =>
          (OneAtKey(k, "add") /\ \A m \in ChangesAt(KeyPath(k)) : df.changes[m].value = Undef)

RootRecords == Returned /\ lhs.t = "object" /\ rhs.t = "object"

\* C10 as stated: for a key present on both sides, diff emits one Add when
\* only the lhs value is undefined, one Remove when only the rhs value is
\* undefined, nothing when both are; a key present on one side only with
\* value undefined still gets its Remove or its Add with value undefined.
C10_UndefinedKeys ==
  RootRecords => \A k \in {"a", "b"} : UndefinedKeyOutcome(k, FALSE)

\* C10: the same, except that with looseEquality on, undefined against null
\* under a key present on both sides emits nothing.
C10_UndefinedKeysLoose ==
  RootRecords => \A k \in {"a", "b"} : UndefinedKeyOutcome(k, TRUE)

\* C10 witness: looseEquality on, key a undefined on the lhs against a
\* number on the rhs (one Add), key b undefined against null (nothing)
C10_Witness ==
  /\ RootRecords /\ opts.looseEquality
  /\ DOMAIN lhs.vals = {"a", "b"} /\ DOMAIN rhs.vals = {"a", "b"}
  /\ lhs.vals["a"] = Undef /\ rhs.vals["a"] = Num(1)
  /\ lhs.vals["b"] = Undef /\ rhs.vals["b"] = Null
  /\ Len(df.changes) = 1 /\ df.changes[1].kind = "add"

\* C11: diff(lhs, rhs) completes without throwing and returns a list of
\* Changes for every pair of root values, null and undefined included.
C11_DiffReturns == AfterDiff => ~df.threw

RECURSIVE Strip(_, _)
\* the graph without the keys in rejected, at every level
Strip(v, rejected) ==
  CASE v.t = "array" -> [v EXCEPT !.elems = [i \in 1..Len(v.elems) |-> Strip(v.elems[i], rejected)]]
    [] v.t = "object" ->
         [v EXCEPT !.keys = SelectSeq(v.keys, LAMBDA k : k \notin rejected),
                   !.vals = [k \in (DOMAIN v.vals) \ rejected |-> Strip(v.vals[k], rejected)]]
    [] OTHER -> v

PathEq(p, q) == Len(p) = Len(q) /\ SamePrefix(p, q, Len(p))
\* two change lists with the same kinds and paths, in the same order
SameKindsAndPaths(cs, ds) ==
  /\ Len(cs) = Len(ds)
  /\ \A m \in 1..Len(cs) : cs[m].kind = ds[m].kind /\ PathEq(cs[m].path, ds[m].path)

\* C12: a record key rejected by propFilter is invisible to diff and equal:
\* no Change has the key in its path, and equal and diff give what they give
\* (default options otherwise) on the graphs with the rejected keys taken
\* out, so the differences under the accepted keys are all reported.
C12_FilteredKeysInvisible ==
  /\ AfterEqual =>
       eq.value = EqualEqual(Strip(lhs, opts.propFilter), Strip(rhs, opts.propFilter), DefaultOpts).value
  /\ AfterDiff =>
       /\ ~df.threw
       /\ \A m \in 1..Len(df.changes) : \A d \in 1..Len(df.changes[m].path) :
            df.changes[m].path[d].typeOf = "object" => df.changes[m].path[d].segment \notin opts.propFilter
       /\ SameKindsAndPaths(df.changes,
            DiffDiff(Strip(lhs, opts.propFilter), Strip(rhs, opts.propFilter), DefaultOpts).changes)

\* C12 witness: key b is rejected and holds different sequences on the two
\* sides, key a is accepted and differs; the diff is the one Edit of key a
C12_Witness ==
  /\ Returned /\ opts.propFilter = {"b"}
  /\ lhs.t = "object" /\ rhs.t = "object"
  /\ DOMAIN lhs.vals = {"a", "b"} /\ DOMAIN rhs.vals = {"a", "b"}
  /\ lhs.vals["b"].t = "array" /\ rhs.vals["b"].t = "number"
  /\ lhs.vals["a"] = Num(1) /\ rhs.vals["a"] = Num(2)
  /\ Len(df.changes) = 1 /\ df.changes[1].kind = "edit"
  /\ eq.value = "false"

\* traverse: leaves, flat and nested sequences and records, and mappings
\* holding them; with and without the guard against circular references
TraverseMaps ==
  {MapOf(0, <<[key |-> Str("k"), value |-> x]>>) : x \in Mid} \cup
  {MapOf(0, <<[key |-> Str("k"), value |-> x], [key |-> Num(1), value |-> Num(2)]>>) : x \in Mid}
TraverseGraphs == {Num(1), Num(2)} \cup Arrays(InnerLeaves, MaxLen) \cup Nested \cup TraverseMaps
TraverseCallbacks ==
  {None} \cup
  {[stop |-> s, stopKind |-> "none", containers |-> c] :
     s \in {None, Num(1), Num(2)}, c \in {"true", "false", "falsy", "fn", "children"}} \cup
  {[stop |-> None, stopKind |-> k, containers |-> "true"] : k \in {"array", "object"}}
GuardSets == {[DefaultOpts EXCEPT !.guardCircularRefs = g] : g \in BOOLEAN}

InitTraverse ==
  \E g \in TraverseGraphs, cb \in TraverseCallbacks, o \in GuardSets :
    StartWith(Label(g, 1), Undef, o, cb) /\ heaps = None

\* traverse(lhs, callback, opts)
CallTraverse ==
  /\ pc = "start"
  /\ trav' = TraverseTraverse(lhs, callback, opts)
  /\ pc' = "traversed"
  /\ UNCHANGED <<lhs, rhs, opts, eq, df, target, nextChange, before, token, check, callback, mirror, heaps, reuse>>

NextTraverse == CallTraverse

SpecTraverse == InitTraverse /\ [][NextTraverse]_vars

\* Graphs with cycles and shared instances.  A heap holds HeapSize
\* containers; a slot of a container holds a leaf or a reference to a
\* container of the heap.  The graph handed to an operation is the heap
\* unfolded from container 1: an instance that is met again carries the same
\* id, and Cut stands for what lies below UnfoldDepth levels of containers.
HeapSize == 2
UnfoldDepth == HeapSize + 2
Ref(i) == [t |-> "ref", ref |-> i]
Cut == [t |-> "cut"]

RECURSIVE Unfold(_, _, _, _)
Unfold(h, i, d, base) ==
  IF d = 0 THEN Cut
  ELSE LET c == h[i]
           n == Len(c.slots)
           child(k) == IF c.slots[k].t = "ref" THEN Unfold(h, c.slots[k].ref, d - 1, base)
                       ELSE c.slots[k]
           ks == SubSeq(<<"a", "b", "c">>, 1, n)
       IN CASE c.t = "array" -> Arr(base + i, [k \in 1..n |-> child(k)])
            [] c.t = "object" ->
                 Obj(base + i, ks, [key \in SeqToSet(ks) |->
                                      child(CHOOSE k \in 1..n : ks[k] = key)])
            [] c.t = "map" ->
                 MapOf(base + i, [k \in 1..n |-> [key |-> Str(ks[k]), value |-> child(k)]])

Slots == SeqsUpTo({Num(1)} \cup {Ref(i) : i \in 1..HeapSize}, MaxLen) \ {<<>>}
Heaps(kinds) == [1..HeapSize -> {[t |-> k, slots |-> s] : k \in kinds, s \in Slots}]
\* the second graph of an equal call: the same shape in instances of its
\* own, or one of these
OtherHeaps ==
  {[i \in 1..HeapSize |-> [t |-> "object", slots |-> <<Ref(1), Ref(HeapSize)>>]],
   [i \in 1..HeapSize |-> [t |-> "array", slots |-> <<Ref(HeapSize), Num(1)>>]],
   [i \in 1..HeapSize |-> [t |-> IF i = 1 THEN "object" ELSE "array", slots |-> <<Ref(HeapSize)>>]]}
CyclicCallbacks ==
  {[stop |-> None, stopKind |-> "none", containers |-> c] : c \in {"true", "fn", "children"}}
  \cup {[stop |-> Num(1), stopKind |-> "none", containers |-> "true"]}

StartCyclic(h, g, o, cb) ==
  /\ heaps = [l |-> h, r |-> g]
  /\ StartWith(Unfold(h, 1, UnfoldDepth, 0),
               IF g = <<>> THEN Undef ELSE Unfold(g, 1, UnfoldDepth, 100), o, cb)

\* graphs with mappings are traversed; graphs of records and sequences are
\* traversed and compared
InitCyclic ==
  \/ \E h \in Heaps({"array", "object", "map"}), cb \in CyclicCallbacks :
       StartCyclic(h, <<>>, [DefaultOpts EXCEPT !.guardCircularRefs = TRUE], cb)
  \/ \E h \in Heaps({"array", "object"}), g \in OtherHeaps \cup {<<>>} :
       StartCyclic(h, IF g = <<>> THEN h ELSE g,
                   [DefaultOpts EXCEPT !.guardCircularRefs = TRUE], None)

NextCyclic == CallTraverse \/ CallEqual

SpecCyclic == InitCyclic /\ [][NextCyclic]_vars

\* clone: acyclic graphs under the default options (leaves, timestamps,
\* sequences, records and mappings whose keys are strings, timestamps or
\* records), and the graphs with cycles and shared instances under
\* guardCircularRefs
CopyLeaves == {Num(1), Undef, DateOf(0, 5)}
CopyInner == CopyLeaves \cup {Arr(0, <<Num(1)>>), Obj(0, <<"a">>, [a |-> DateOf(0, 5)])}
CopyMaps ==
  {MapOf(0, <<[key |-> k, value |-> x]>>) :
     k \in {Str("k"), DateOf(0, 7), Obj(0, <<"a">>, [a |-> Num(1)])}, x \in CopyInner}
CopyGraphs ==
  CopyLeaves \cup Arrays(CopyInner, MaxLen) \cup {Obj(0, <<"a", "b">>, [a |-> x, b |-> y]) : x, y \in CopyInner}
             \cup CopyMaps \cup {Arr(0, <<m>>) : m \in CopyMaps}

InitCopy ==
  \/ \E g \in CopyGraphs : StartWith(Label(g, 1), Undef, DefaultOpts, None) /\ heaps = None
  \/ \E h \in Heaps({"array", "object", "map"}) :
       StartCyclic(h, <<>>, [DefaultOpts EXCEPT !.guardCircularRefs = TRUE], None)

\* deepCopy(lhs, opts)
CallCopy ==
  /\ pc = "start"
  /\ mirror' = CopyCopy(lhs, opts)
  /\ pc' = "copied"
  /\ UNCHANGED <<lhs, rhs, opts, eq, df, target, nextChange, before, token, check, callback, trav, heaps, reuse>>

NextCopy == CallCopy

SpecCopy == InitCopy /\ [][NextCopy]_vars

\* One algorithm instance (an Equal, a Diff, a Copy or a Traverse) that is
\* used for two calls: first on (lhs, rhs), then on (reuse.lhs, rhs).  The
\* same call is made beforehand by the convenience function, which
\* constructs an instance of its own.
ReuseGraphs ==
  {Num(1), Arr(0, <<Num(1)>>), Arr(0, <<Num(2)>>), Arr(0, <<Arr(0, <<Num(1)>>), Num(2)>>),
   Arr(0, <<Arr(0, <<Num(2)>>), Num(2)>>), Obj(0, <<"a">>, [a |-> Num(1)]),
   Obj(0, <<"a">>, [a |-> Arr(0, <<Num(1)>>)]), Obj(0, <<"a", "b">>, [a |-> Arr(0, <<Num(1)>>), b |-> Undef])}
Algorithms == {"equal", "diff", "copy", "traverse"}

\* the call of the algorithm: equal(l, r), diff(l, r), copy(l), traverse(l, cb)
Run(alg, l, r, cb, o) ==
  CASE alg = "equal" -> EqualEqual(l, r, o)
    [] alg = "diff" -> DiffDiff(l, r, o)
    [] alg = "copy" -> CopyCopy(l, o)
    [] alg = "traverse" -> TraverseTraverse(l, cb, o)

InitReuse ==
  \E a \in ReuseGraphs, b \in ReuseGraphs, c \in ReuseGraphs, alg \in Algorithms, o \in GuardSets :
    /\ lhs = Label(a, 1) /\ rhs = Label(b, 2) /\ opts = o
    /\ pc = "start"
    /\ eq = None /\ df = None /\ check = None
    /\ target = None /\ before = None /\ token = NoToken
    /\ nextChange = 0
    /\ callback = [stop |-> Num(2), stopKind |-> "none", containers |-> "true"]
    /\ trav = None /\ mirror = None /\ heaps = None
    /\ reuse = [alg |-> alg, lhs |-> Label(c, 3), fresh |-> None, first |-> None, again |-> None]

\* deepEqual / deepDiff / deepCopy / traverse on (reuse.lhs, rhs): a new instance
CallFresh ==
  /\ pc = "start"
  /\ reuse' = [reuse EXCEPT !.fresh = Run(reuse.alg, reuse.lhs, rhs, callback, opts)]
  /\ pc' = "constructed"
  /\ UNCHANGED <<lhs, rhs, opts, eq, df, target, nextChange, before, token, check, callback, trav, mirror, heaps>>

\* algo.equal / diff / copy / traverse on (lhs, rhs): the first call on the instance
CallFirst ==
  /\ pc = "constructed"
  /\ reuse' = [reuse EXCEPT !.first = Run(reuse.alg, lhs, rhs, callback, opts)]
  /\ pc' = "used"
  /\ UNCHANGED <<lhs, rhs, opts, eq, df, target, nextChange, before, token, check, callback, trav, mirror, heaps>>

\* the second call on the same instance, on (reuse.lhs, rhs)
CallAgain ==
  /\ pc = "used"
  /\ reuse' = [reuse EXCEPT !.again = Run(reuse.alg, reuse.lhs, rhs, callback, opts)]
  /\ pc' = "reused"
  /\ UNCHANGED <<lhs, rhs, opts, eq, df, target, nextChange, before, token, check, callback, trav, mirror, heaps>>

NextReuse == CallFresh \/ CallFirst \/ CallAgain

SpecReuse == InitReuse /\ [][NextReuse]_vars

\* the epsilon in force
Epsilon == IF opts.epsilon = <<>> THEN NumberEPSILON ELSE opts.epsilon[1]
IsNumberPair(p) == p.l.t = "number" /\ p.r.t = "number"
\* exactly one Change at or below the path: an Edit at the path
OneEditAt(path) ==
  /\ Cardinality(ChangesAt(path)) = 1
  /\ \A m \in ChangesAt(path) :
       df.changes[m].kind = "edit" /\ Len(df.changes[m].path) = Len(path)

\* C13: two numbers whose absolute difference is smaller than epsilon compare
\* as equal (equal is not false, diff emits no Edit for the pair); two
\* numbers whose difference is at least epsilon compare as not equal.
C13_EpsilonTolerance ==
  /\ (AfterEqual /\ IsNumberPair([l |-> lhs, r |-> rhs]) /\ ~IsNaN(lhs) /\ ~IsNaN(rhs)) =>
       (eq.value = "false" <=> ~AbsDiffLt(lhs, rhs, Epsilon))
  /\ Returned =>
       \A k \in 1..Len(Pairs(lhs, rhs, <<>>)) :
         LET p == Pairs(lhs, rhs, <<>>)[k]
         IN (IsNumberPair(p) /\ ~IsNaN(p.l) /\ ~IsNaN(p.r)) =>
              IF AbsDiffLt(p.l, p.r, Epsilon) THEN ChangesAt(p.path) = {} ELSE OneEditAt(p.path)

\* C14: in a number-to-number comparison NaN on either side yields an equal
\* outcome: no Edit is emitted for the pair and equal is not made false.
C14_NaNEqualButDistinct ==
  /\ (AfterEqual /\ IsNumberPair([l |-> lhs, r |-> rhs]) /\ (IsNaN(lhs) \/ IsNaN(rhs))) =>
       eq.value # "false"
  /\ Returned =>
       \A k \in 1..Len(Pairs(lhs, rhs, <<>>)) :
         LET p == Pairs(lhs, rhs, <<>>)[k]
         IN (IsNumberPair(p) /\ (IsNaN(p.l) \/ IsNaN(p.r))) => ChangesAt(p.path) = {}

\* C15: for root records, NaN against a non-NaN number under the same key
\* yields exactly one Edit for the key (in either direction); NaN against
\* NaN yields no Change, and equal returns true for records that hold NaN
\* under every key on both sides.
C15_NaNInRecords ==
  (Returned /\ lhs.t = "object" /\ rhs.t = "object") =>
    /\ \A k \in (DOMAIN lhs.vals) \cap (DOMAIN rhs.vals) :
         LET lv == lhs.vals[k]
             rv == rhs.vals[k]
         IN /\ (lv.t = "number" /\ rv.t = "number" /\ IsNaN(lv) # IsNaN(rv)) => OneEditAt(KeyPath(k))
            /\ (IsNaN(lv) /\ IsNaN(rv)) => ChangesAt(KeyPath(k)) = {}
    /\ (/\ DOMAIN lhs.vals = DOMAIN rhs.vals /\ DOMAIN lhs.vals # {}
        /\ \A k \in DOMAIN lhs.vals : IsNaN(lhs.vals[k]) /\ IsNaN(rhs.vals[k]))
         => (eq.value = "true" /\ df.changes = <<>>)

\* C15 witness: key a holds NaN on both sides, key b holds NaN against a
\* number; the diff is the one Edit of key b and equal returns false
C15_Witness ==
  /\ Returned /\ lhs.t = "object" /\ rhs.t = "object"
  /\ DOMAIN lhs.vals = {"a", "b"} /\ DOMAIN rhs.vals = {"a", "b"}
  /\ IsNaN(lhs.vals["a"]) /\ IsNaN(rhs.vals["a"])
  /\ IsNaN(lhs.vals["b"]) /\ rhs.vals["b"] = Num(1)
  /\ Len(df.changes) = 1 /\ df.changes[1].kind = "edit" /\ df.changes[1].value = Num(1)

\* p comes before q in pre-order: p is a proper prefix of q, or p is smaller
\* at the first position where they differ
LexBefore(p, q) ==
  \/ Len(p) < Len(q) /\ \A i \in 1..Len(p) : p[i] = q[i]
  \/ \E i \in 1..Min(Len(p), Len(q)) :
       p[i] < q[i] /\ \A j \in 1..(i - 1) : p[j] = q[j]

\* C16: traverse invokes the callback in pre-order (a node after its parent,
\* and, unless the callback names the children itself, every node before
\* every node that follows it in enumeration order); a returned non-boolean
\* truthy value is returned by the last invocation made and is the value of
\* traverse; without such a value traverse returns null.
C16_TraversePreOrderAbort ==
  pc = "traversed" =>
    LET calls == trav.ctx.calls
    IN /\ callback = None => (calls = <<>> /\ trav.value = T_NULL)
       /\ \A i \in 1..Len(calls) :
            calls[i].path # <<>> =>
              \E j \in 1..(i - 1) : calls[j].path = SubSeq(calls[i].path, 1, Len(calls[i].path) - 1)
       /\ (callback # None /\ callback.containers # "children") =>
            \A i, j \in 1..Len(calls) : i < j => LexBefore(calls[i].path, calls[j].path)
       /\ \A i \in 1..Len(calls) :
            calls[i].result = "node" =>
              /\ i = Len(calls)
              /\ trav.value = [k |-> "node", path |-> calls[i].path, value |-> calls[i].value]
       /\ (\A i \in 1..Len(calls) : calls[i].result # "node") => trav.value = T_NULL

\* C16 witness: the callback returns the node of a leaf two levels down,
\* in the first of two elements of the root; the second element is never
\* handed to the callback
C16_Witness ==
  /\ pc = "traversed" /\ callback # None
  /\ lhs.t = "array" /\ Len(lhs.elems) = 2
  /\ trav.value.k = "node" /\ Len(trav.value.path) = 2 /\ trav.value.path[1] = 0
  /\ \A i \in 1..Len(trav.ctx.calls) :
       trav.ctx.calls[i].path # <<>> => trav.ctx.calls[i].path[1] = 0

\* a run of equal as the calls it made: each logged call by the paths of its
\* two nodes, so that runs on two unfoldings of the same graph can be compared
CallsOf(e) ==
  [e EXCEPT !.ctx.log = [k \in 1..Len(e.ctx.log) |->
                           [ev |-> e.ctx.log[k].ev, searching |-> e.ctx.log[k].searching,
                            lpath |-> PathOf(e.ctx.log[k].l), rpath |-> PathOf(e.ctx.log[k].r)]]]

\* C17: with guardCircularRefs, traverse and equal on graphs with cycles end
\* without looking below the depth of the number of containers (no callback
\* is made on what lies below UnfoldDepth, and equal's run is the same on
\* the graphs unfolded one level deeper), and the callback is invoked at
\* most once for each container instance.
C17_GuardedTermination ==
  /\ pc = "traversed" =>
       LET calls == trav.ctx.calls
       IN /\ \A i \in 1..Len(calls) : calls[i].value # Cut
          /\ \A i, j \in 1..Len(calls) :
               (i < j /\ "id" \in DOMAIN calls[i].value /\ "id" \in DOMAIN calls[j].value)
                 => calls[i].value.id # calls[j].value.id
          /\ trav = TraverseTraverse(Unfold(heaps.l, 1, UnfoldDepth + 1, 0), callback, opts)
  /\ (pc = "compared" /\ heaps.r # <<>>) =>
       CallsOf(eq) = CallsOf(EqualEqual(Unfold(heaps.l, 1, UnfoldDepth + 1, 0),
                                        Unfold(heaps.r, 1, UnfoldDepth + 1, 100), opts))

\* C17 witness: two containers that refer to themselves and to each other;
\* the callback was made once for each of them and traverse returned null
C17_Witness ==
  /\ pc = "traversed" /\ callback # None /\ callback.containers = "true" /\ callback.stop = None
  /\ heaps.l[1].slots = <<Ref(1), Ref(2)>> /\ heaps.l[2].slots = <<Ref(1), Ref(2)>>
  /\ heaps.l[1].t = "map" /\ heaps.l[2].t = "array"
  /\ Len(trav.ctx.calls) = 2 /\ trav.value = T_NULL

\* C17 witness for equal: the same cyclic shape in two sets of instances
\* compares without a difference
C17_WitnessEqual ==
  /\ pc = "compared" /\ heaps # None /\ heaps.r = heaps.l
  /\ heaps.l[1].slots = <<Ref(2), Num(1)>> /\ heaps.l[2].slots = <<Ref(1), Ref(2)>>
  /\ eq.value = "true"

RECURSIVE FindInstance(_, _)
\* the instances of the graph v that carry the id
FindInstance(v, id) ==
  LET here == IF CreatesInstance(v) /\ v.id = id THEN {v} ELSE {}
  IN CASE v.t = "array" -> here \cup UNION {FindInstance(v.elems[i], id) : i \in 1..Len(v.elems)}
       [] v.t = "object" -> here \cup UNION {FindInstance(v.vals[k], id) : k \in DOMAIN v.vals}
       [] v.t = "map" -> here \cup UNION {FindInstance(v.entries[i].value, id) : i \in 1..Len(v.entries)}
       [] OTHER -> here
\* the value a child of the clone stands for
Deref(c, root) == IF c.t = "mirror" THEN CHOOSE x \in FindInstance(root, c.id) : TRUE ELSE c

RECURSIVE Mirrors(_, _, _, _)
\* down to d levels the clone c has the shape of the original o: the same
\* kind, a child at every key, index and position where o has one, equal leaves
Mirrors(o, c0, d, root) ==
  IF d = 0 \/ o = Cut THEN TRUE
  ELSE IF c0 = None \/ c0 = Hole THEN FALSE
  ELSE LET c == Deref(c0, root)
       IN CASE o.t = "array" ->
                 /\ c.t = "array" /\ Len(c.elems) = Len(o.elems)
                 /\ \A i \in 1..Len(o.elems) : Mirrors(o.elems[i], c.elems[i], d - 1, root)
            [] o.t = "object" ->
                 /\ c.t = "object" /\ DOMAIN c.vals = DOMAIN o.vals
                 /\ \A k \in DOMAIN o.vals : Mirrors(o.vals[k], c.vals[k], d - 1, root)
            [] o.t = "map" ->
                 /\ c.t = "map" /\ Len(c.entries) = Len(o.entries)
                 /\ \A i \in 1..Len(o.entries) :
                      /\ Canon(c.entries[i].key) = Canon(o.entries[i].key)
                      /\ Mirrors(o.entries[i].value, c.entries[i].value, d - 1, root)
            [] o.t = "date" -> c.t = "date" /\ c.time = o.time
            [] OTHER -> c = o

RECURSIVE IdPairs(_, _, _, _)
\* the pairs (instance of the original, instance of the clone) met at the
\* same place
IdPairs(o, c0, d, root) ==
  IF d = 0 \/ ~IsContainer(o) \/ c0 = None \/ c0 = Hole THEN {}
  ELSE LET c == Deref(c0, root)
       IN IF c.t # o.t THEN {}
          ELSE {<<o.id, c.id>>} \cup
               CASE o.t = "array" ->
                      UNION {IdPairs(o.elems[i], c.elems[i], d - 1, root) :
                               i \in 1..Min(Len(o.elems), Len(c.elems))}
                 [] o.t = "object" ->
                      UNION {IdPairs(o.vals[k], c.vals[k], d - 1, root) :
                               k \in (DOMAIN o.vals) \cap (DOMAIN c.vals)}
                 [] o.t = "map" ->
                      UNION {IdPairs(o.entries[i].value, c.entries[i].value, d - 1, root) :
                               i \in 1..Min(Len(o.entries), Len(c.entries))}

\* C18: with guardCircularRefs the clone of a graph with cycles or shared
\* containers has a child wherever the original has one, and places that
\* hold the same instance in the original hold the same instance in the clone.
C18_CloneKeepsReferences ==
  (pc = "copied" /\ opts.guardCircularRefs) =>
    /\ Mirrors(lhs, mirror.value, UnfoldDepth, mirror.value)
    /\ \A x, y \in IdPairs(lhs, mirror.value, UnfoldDepth, mirror.value) :
         x[1] = y[1] => x[2] = y[2]

RECURSIVE Instances(_)
\* the identities of the containers and timestamps reachable in a graph, as
\* values or as keys of a mapping
Instances(v) ==
  CASE v.t = "array" -> {v.id} \cup UNION {Instances(v.elems[i]) : i \in 1..Len(v.elems)}
    [] v.t = "object" -> {v.id} \cup UNION {Instances(v.vals[k]) : k \in DOMAIN v.vals}
    [] v.t = "map" ->
         {v.id} \cup UNION {Instances(v.entries[i].value) \cup Instances(v.entries[i].key) :
                              i \in 1..Len(v.entries)}
    [] v.t = "date" -> {v.id}
    [] OTHER -> {}

\* C19: under the default options the clone of an acyclic graph has the
\* shape and the leaves of the original, and no container or timestamp of
\* the clone, as a value or as a key of a mapping, is an instance of the
\* original.
C19_CloneIndependent ==
  (pc = "copied" /\ ~opts.guardCircularRefs) =>
    /\ Mirrors(lhs, mirror.value, UnfoldDepth, mirror.value)
    /\ Instances(lhs) \cap Instances(mirror.value) = {}

RECURSIVE Resolves(_, _)
Resolves(v, path) ==
  \/ Len(path) = 0
  \/ /\ HasChild(v, path[1])
     /\ Resolves(GetChild(v, path[1]), Tail(path))

\* the Change the last apply call was made on
LastApplied == df.changes[nextChange - 1]

\* a segment before the last one does not resolve in the target
IntermediateUnresolved ==
  /\ pc = "applied"
  /\ Len(LastApplied.path) >= 2
  /\ ~Resolves(before, SubSeq(LastApplied.path, 1, Len(LastApplied.path) - 1))

RECURSIVE MeetsOutcome(_, _)
MeetsOutcome(l, r) ==
  IF l = r \/ ~IsContainer(l) \/ ~IsContainer(r) \/ l.t # r.t THEN TRUE
  ELSE IF l.t = "array"
  THEN \/ Len(l.elems) # Len(r.elems)
       \/ \E i \in 1..Len(l.elems) : MeetsOutcome(l.elems[i], r.elems[i])
  ELSE \/ DOMAIN l.vals # DOMAIN r.vals
       \/ \E k \in DOMAIN l.vals : MeetsOutcome(l.vals[k], r.vals[k])

\* an outcome handler ran outside search mode
RecordedOutcome ==
  \E i \in 1..Len(eq.ctx.log) :
    /\ ~eq.ctx.log[i].searching
    /\ eq.ctx.log[i].ev \in {"areEqual", "notEqual", "noLhs", "noRhs"}

\* C22: equal returns undefined exactly when no outcome was recorded
\* outside search mode, that is when the paired descent met no leaf pair, no
\* same-instance pair and no missing counterpart (two distinct empty
\* containers of one kind, at the root or nested); otherwise a boolean.
C22_UndefinedIffNoOutcome ==
  pc = "compared" =>
    /\ (eq.value = "undefined") <=> ~RecordedOutcome
    /\ (eq.value = "undefined") <=> ~MeetsOutcome(lhs, rhs)

\* a plain segment: a key, or a sequence index that is not negative
IsPlain(seg) == seg.typeOf = "array" => seg.segment >= 0
\* the path with an insert marker at the end turned into the index it marks
Unmarked(path) ==
  [k \in 1..Len(path) |->
     IF k = Len(path) /\ path[k].typeOf = "array"
     THEN [path[k] EXCEPT !.segment = SegIndex(path[k])] ELSE path[k]]
RECURSIVE ValueAt(_, _)
ValueAt(v, path) == IF Len(path) = 0 THEN v ELSE ValueAt(GetChild(v, path[1]), Tail(path))

\* an Add whose parent is an ordered sequence
IsSequenceAdd(c) ==
  c.kind = "add" /\ Len(c.path) > 0 /\ c.path[Len(c.path)].typeOf = "array"

\* C23: the terminal segment of an Add into an ordered sequence is the
\* insert marker -(i+1) of the right-hand index i; every other segment (the
\* non-terminal ones, the terminal one of a Remove, an Edit or an Add under
\* a key) is the plain index or key.
C23_InsertMarker ==
  Returned =>
    \A m \in 1..Len(df.changes) :
      LET c == df.changes[m]
          n == Len(c.path)
      IN /\ \A k \in 1..(n - 1) : IsPlain(c.path[k])
         /\ IF IsSequenceAdd(c)
            THEN /\ c.path[n].segment < 0
                 /\ Resolves(rhs, Unmarked(c.path))
                 /\ ValueAt(rhs, Unmarked(c.path)) = c.value
            ELSE n > 0 => IsPlain(c.path[n])

\* an Add at index 0 of a nested sequence next to a Change that is no Add
C23_Witness ==
  /\ Returned
  /\ \E m \in 1..Len(df.changes) :
       /\ IsSequenceAdd(df.changes[m])
       /\ Len(df.changes[m].path) = 2
       /\ df.changes[m].path[2].segment = 0 - 1
  /\ \E m \in 1..Len(df.changes) :
       /\ df.changes[m].kind # "add"
       /\ Len(df.changes[m].path) > 0
       /\ df.changes[m].path[Len(df.changes[m].path)].typeOf = "array"

\* the calls diff made for the elements of the root sequence outside search
\* mode: a comparison of a pair, a no-right outcome, a no-left outcome
IsElementCall(e) ==
  /\ ~e.searching
  /\ \/ e.ev \in {"compare", "noRhs"} /\ Len(PathOf(e.l)) = 1 /\ PathOf(e.l)[1].typeOf = "array"
     \/ e.ev = "noLhs" /\ Len(PathOf(e.r)) = 1 /\ PathOf(e.r)[1].typeOf = "array"
ElementCalls == {k \in 1..Len(df.ctx.log) : IsElementCall(df.ctx.log[k])}
Phase(e) == CASE e.ev = "compare" -> 1 [] e.ev = "noRhs" -> 2 [] OTHER -> 3
ElementIndex(e) == IF e.ev = "noLhs" THEN PathOf(e.r)[1].segment ELSE PathOf(e.l)[1].segment

\* C24: in lax mode the outcomes of one sequence come in three phases: the
\* comparisons of the matched pairs in descending left index, then the
\* no-right outcomes (Removes) in descending left index, then the no-left
\* outcomes (Adds) in ascending right index; no Remove follows an Add.
C24_LaxEmissionOrder ==
  (Returned /\ opts.laxArrayOrdering) =>
    \A j, k \in ElementCalls :
      j < k =>
        LET a == df.ctx.log[j]
            b == df.ctx.log[k]
        IN /\ Phase(a) <= Phase(b)
           /\ Phase(a) = Phase(b) =>
                IF Phase(a) = 3 THEN ElementIndex(a) < ElementIndex(b)
                ELSE ElementIndex(a) > ElementIndex(b)

\* a diff that went through all three phases
C24_Witness ==
  /\ Returned /\ opts.laxArrayOrdering
  /\ {Phase(df.ctx.log[k]) : k \in ElementCalls} = {1, 2, 3}

\* the matching read off the calls diff made for the root sequence
MatchedPairs ==
  {<<PathOf(df.ctx.log[k].l)[1].segment, PathOf(df.ctx.log[k].r)[1].segment>> :
     k \in {j \in ElementCalls : df.ctx.log[j].ev = "compare"}}
RemovedLeft ==
  {PathOf(df.ctx.log[k].l)[1].segment : k \in {j \in ElementCalls : df.ctx.log[j].ev = "noRhs"}}
AddedRight ==
  {PathOf(df.ctx.log[k].r)[1].segment : k \in {j \in ElementCalls : df.ctx.log[j].ev = "noLhs"}}

\* one search comparison of left element i with right element j
SearchEqual(i, j) ==
  LET le == ArrayElems(RootNode(lhs), opts)
      re == ArrayElems(RootNode(rhs), opts)
      ctx == [DiffCreateContext(opts) EXCEPT !.searching = TRUE]
      res == Compare(le[i + 1], re[j + 1], ctx)
  IN res.ctx.searchResult # UNDEFINED /\ IS_EQUAL(res.ctx.searchResult)

\* the right indices left element i may take: not the partner of a lower
\* left index, of the same kind, and search-comparing equal
Candidates(i) ==
  {j \in 0..(Len(rhs.elems) - 1) :
     /\ ~\E p \in MatchedPairs : p[1] < i /\ p[2] = j
     /\ UpdateNodeTypeOf(rhs.elems[j + 1]) = UpdateNodeTypeOf(lhs.elems[i + 1])
     /\ SearchEqual(i, j)}

\* C25: the lax matching is a first-fit partial injection: in ascending left
\* order each left element takes the lowest right index that is not yet
\* consumed, has the same kind and search-compares equal; every left index
\* is matched or removed, every right index consumed or added, exactly one
\* of the two, and no right index is paired twice.
C25_LaxFirstFit ==
  (Returned /\ opts.laxArrayOrdering /\ lhs.t = "array" /\ rhs.t = "array" /\ lhs # rhs) =>
    /\ \A i \in 0..(Len(lhs.elems) - 1) :
         IF Candidates(i) = {}
         THEN i \in RemovedLeft /\ ~\E p \in MatchedPairs : p[1] = i
         ELSE /\ i \notin RemovedLeft
              /\ {p \in MatchedPairs : p[1] = i} =
                   {<<i, CHOOSE j \in Candidates(i) : \A n \in Candidates(i) : j <= n>>}
    /\ \A j \in 0..(Len(rhs.elems) - 1) :
         IF j \in AddedRight THEN ~\E p \in MatchedPairs : p[2] = j
         ELSE Cardinality({p \in MatchedPairs : p[2] = j}) = 1
    /\ \A p \in MatchedPairs : p[1] \in 0..(Len(lhs.elems) - 1) /\ p[2] \in 0..(Len(rhs.elems) - 1)

\* two equal left elements against one such right element: the first is
\* matched, the second removed
C25_Witness ==
  /\ Returned /\ opts.laxArrayOrdering /\ lhs.t = "array" /\ rhs.t = "array" /\ lhs # rhs
  /\ Len(lhs.elems) = 2 /\ Len(rhs.elems) = 2
  /\ SearchEqual(0, 1) /\ SearchEqual(1, 1) /\ ~SearchEqual(0, 0)
  /\ MatchedPairs = {<<0, 1>>}
  /\ RemovedLeft = {1} /\ AddedRight = {0}

\* contexts of an enclosing comparison: of either algorithm, in search mode
\* or not, with and without a result, a search result and a Change
EnclosingContexts ==
  {[CompareCreateContext(opts, alg) EXCEPT
      !.result = res, !.searching = s, !.searchResult = sr, !.changes = ch] :
     alg \in {"equal", "diff"}, res \in {UNDEFINED, NOT_EQUAL}, s \in BOOLEAN,
     sr \in {UNDEFINED, NOT_EQUAL}, ch \in {<<>>, <<CreateRemove(RootNode(lhs))>>}}

\* findIndexOf for left element i, called from the enclosing context
SearchFrom(i, ctx) ==
  FindIndexOf(ArrayElems(RootNode(lhs), opts)[i], ArrayElems(RootNode(rhs), opts), <<>>, ctx)

SameMapping(l, r) ==
  /\ l.t = "map" /\ r.t = "map"
  /\ Len(l.entries) = Len(r.entries)
  /\ \A i \in 1..Len(l.entries) :
       /\ l.entries[i].key = r.entries[i].key
       /\ Canon(l.entries[i].value) = Canon(r.entries[i].value)

\* C27: with strictMapOrdering, two distinct mappings holding the same keys
\* in the same insertion order with pairwise equal values compare as equal:
\* equal is not false and diff is empty.
C27_StrictMapsEqual ==
  (AfterEqual /\ opts.strictMapOrdering /\ SameMapping(lhs, rhs)) =>
    /\ eq.value # "false"
    /\ AfterDiff => df.changes = <<>>

Unguarded == [opts EXCEPT !.guardCircularRefs = FALSE]

\* C28: on acyclic graphs guardCircularRefs does not change the answer:
\* equal and diff give with the guard what they give without it, also when
\* a container instance is reachable through several paths and with
\* laxArrayOrdering.
C28_GuardKeepsAnswer ==
  /\ pc = "compared" => eq.value = EqualEqual(lhs, rhs, Unguarded).value
  /\ pc = "diffed" => df.changes = DiffDiff(lhs, rhs, Unguarded).changes

\* C29: with default options, comparing an acyclic graph with a
\* structurally equal copy that shares no container instance reports no
\* difference: equal is not false and diff is empty, for records, sequences,
\* mappings and unique-value collections, also with containers as members.
C29_CloneComparesEqual ==
  /\ pc = "compared" => eq.value \in {"true", "undefined"}
  /\ pc \notin {"start", "compared"} => (pc = "diffed" /\ df.changes = <<>>)

\* C30: Equal and Diff agree: whenever equal returns, diff returns too, and
\* its list is non-empty exactly when equal returned false (empty exactly
\* when equal returned true or undefined).
C30_EqualDiffAgree ==
  (AfterDiff /\ eq.value # "threw") =>
    /\ pc # "threw"
    /\ (df.changes # <<>>) <=> (eq.value = "false")

====
